---- MODULE Spec2Model ----
(***************************************************************************)
(* A model of the MCP video/audio generation service.                      *)
(*                                                                         *)
(* Part I   -- the JSON-RPC / MCP protocol session (app/mcp_protocol.py),  *)
(*             the endpoint handlers (app/mcp_endpoints.py) and the two    *)
(*             transports (app/mcp_transport.py,                           *)
(*             app/mcp_transport_streamable.py).       Specification:      *)
(*             SpecProto.                                                  *)
(* Part II  -- the queue worker's pipelines gen_video and gen_audio        *)
(*             (app/jobs.py), the notifier (app/websocket_manager.py) and  *)
(*             the status resolution of app/main.py.   Specification:      *)
(*             SpecJobs.                                                   *)
(***************************************************************************)
EXTENDS Integers, Sequences, FiniteSets, TLC

VARIABLES
    \* ---- Part I: protocol session and transports
    initialized,      \* McpProtocolHandler.initialized
    client_info,      \* McpProtocolHandler.client_info / client_capabilities ("-" is None)
    last,             \* the request handled last: [req, path, header, wants, init_before, streamed]
    resp,             \* what the transport answered to it
    effect,           \* what handling it executed: [endpoint, tool, enqueued]
    queue_len,        \* number of jobs the endpoints have enqueued so far
    active_streams,   \* StreamableHttpTransport.active_streams (its client ids)
    job_streams,      \* StreamableHttpTransport.job_streams (pairs <<job id, client id>>)
    \* ---- Part II: one job of the queue and its worker
    kind,             \* "video" | "audio": the pipeline the job runs
    pc,               \* the worker's position in the pipeline
    meta,             \* job.meta as the worker holds it (a function on the keys present)
    stored_meta,      \* job.meta as persisted by the last save_meta()
    job_status,       \* the queue's own status of the job
    result,           \* job.result
    published,        \* the notifications published on the job's channel, in order
    exc,              \* the exception in flight ("-" is none)
    vendor,           \* the vendor operation as the immediate status check sees it
    locals,           \* the pipeline's local variables
    query,            \* the last status query answered: [via, status, url, ...]
    \* ---- Part III: the delivery of the job's notifications
    listener_pos,     \* how many of the published messages redis_listener has handled
    ws,               \* one WebSocket of the job: [state, since, inbox]
    stream,           \* one SSE stream of the unified endpoint: [state, since, queue, emitted]
    \* ---- Part IV: the REST endpoints
    created,          \* the create-job call handled last and its outcome
    waiter,           \* one call of the long-poll endpoint: [state, known, sleeps, answer]
    \* ---- Part V: the script of an audio job
    script,           \* one call of make_script after the model answered
    \* ---- Part VI: URL resolution
    resolution,       \* one URL, what resolving it gave, and what resolving that gave
    \* ---- Part VII: the registry of WebSockets
    hub,              \* active_connections of the job, its sockets' handlers, one broadcast
    \* ---- Part VIII: the listener task and the shutdown
    listener,         \* redis_listener's position and resources, and shutdown_event's
    \* ---- Part IX: the legacy SSE endpoint
    sse,              \* sse_connections[client_id] and the streams opened with that id
    \* ---- Part X: the ids of requests and responses
    exchange          \* the id of the request handled last and of its response

protoVars == <<initialized, client_info, last, resp, effect, queue_len,
               active_streams, job_streams>>
jobVars == <<kind, pc, meta, stored_meta, job_status, result, published, exc,
             vendor, locals, query>>
notifyVars == <<listener_pos, ws, stream>>
sideVars == <<hub, listener, sse, exchange>>
restVars == <<created, waiter, script, resolution, sideVars>>
vars == <<protoVars, jobVars, notifyVars, restVars>>

(***************************************************************************)
(*                      Part I: protocol and transports                    *)
(***************************************************************************)

\* Bounds of the model.
MaxJobs == 1       \* jobs the endpoints may enqueue in one run
MaxStreams == 1    \* SSE streams that may be open at once

\* class McpError
PARSE_ERROR == -32700
INVALID_REQUEST == -32600
METHOD_NOT_FOUND == -32601
INVALID_PARAMS == -32602
INTERNAL_ERROR == -32603
INVALID_PROTOCOL_VERSION == -32000
TOOL_EXECUTION_ERROR == -32002
RESOURCE_NOT_FOUND == -32003

\* class McpProtocolVersion(str, Enum): the members of the enumeration
McpProtocolVersion == {"2024-11-05", "2025-03-26", "2025-06-18"}

\* McpProtocolHandler.supported_versions
supported_versions == {"2024-11-05", "2025-03-26", "2025-06-18"}

\* The versions the unified endpoint accepts in its MCP-Protocol-Version header
HeaderVersions == {"2025-03-26", "2025-06-18"}

\* StreamableHttpTransport.STREAMING_TOOLS
STREAMING_TOOLS == {"generate_video", "generate_audio"}

\* ---- the inputs: JSON-RPC requests ----------------------------------------
\* params: "absent" (None or {}), "malformed" (a dict lacking a required field
\* or holding one of the wrong type; a malformed tools/call either lacks the
\* name, or names generate_video and lacks the arguments), "ok".  version: initialize's
\* protocolVersion.  name: the tool / prompt name, or the kind of uri.
\* arg: whether the tool's required argument (prompt, job_id, ...) is given.
Req(m, p, v, n, a) == [method |-> m, params |-> p, version |-> v, name |-> n, arg |-> a]

RequestedVersions == McpProtocolVersion \cup {"2099-01-01"}
ToolNames == {"generate_video", "generate_audio", "analyze_writing_style",
              "check_job_status", "unknown_tool"}
PromptNames == {"video_generation", "podcast_generation", "style_analysis",
                "unknown_prompt"}
UriKinds == {"job_known", "job_unknown", "other"}

Requests ==
    {Req("initialize", p, "-", "-", FALSE) : p \in {"absent", "malformed"}}
    \cup {Req("initialize", "ok", v, "-", FALSE) : v \in RequestedVersions}
    \cup {Req(m, "absent", "-", "-", FALSE) :
            m \in {"notifications/initialized", "ping", "tools/list",
                   "resources/list", "prompts/list", "unknown/method"}}
    \cup {Req(m, p, "-", "-", FALSE) :
            m \in {"tools/call", "resources/read", "prompts/get"},
            p \in {"absent", "malformed"}}
    \cup {Req("tools/call", "malformed", "-", "generate_video", FALSE)}
    \cup {Req("tools/call", "ok", "-", n, a) : n \in ToolNames, a \in BOOLEAN}
    \cup {Req("resources/read", "ok", "-", u, TRUE) : u \in UriKinds}
    \cup {Req("prompts/get", "ok", "-", n, TRUE) : n \in PromptNames}

NoReq == Req("-", "absent", "-", "-", FALSE)

\* What the collaborators of a tool do in one call: whether the credentials
\* validate, whether the video parameters validate, whether the queue (Redis)
\* raises.  A call meets at most one of the faults.
Envs == {e \in [creds_valid : BOOLEAN, params_valid : BOOLEAN, raises : BOOLEAN] :
            \/ e.creds_valid /\ e.params_valid
            \/ e.creds_valid /\ ~e.raises
            \/ e.params_valid /\ ~e.raises}

\* The call in which nothing fails.
CalmEnv == [creds_valid |-> TRUE, params_valid |-> TRUE, raises |-> FALSE]

\* The request bodies that hold no JSON-RPC request: no bytes at all, text
\* that is not JSON, JSON that is not a request envelope (no method).
BadBodies == {"empty", "not_json", "bad_envelope"}

\* Only a tool call and a resource read reach the collaborators.
EnvsFor(req) ==
    IF req.method \in {"tools/call", "resources/read"} /\ req.params = "ok"
    THEN Envs
    ELSE {CalmEnv}

\* ---- responses --------------------------------------------------------------
\* kind: "none" is Python's None (no response object), "result"/"error" a
\* JSON-RPC response, "null_result" the legacy transport's
\* {"jsonrpc": "2.0", "id": None, "result": None}, "http_error" an HTTPException.
Response(k, c, v) == [kind |-> k, code |-> c, version |-> v]
NoResponse == Response("none", 0, "-")

\* McpProtocolHandler.create_error_response
create_error_response(code) == Response("error", code, "-")

\* McpProtocolHandler.create_success_response
create_success_response(v) == Response("result", 0, v)

NoEffect == [endpoint |-> "-", tool |-> "-", enqueued |-> FALSE]

\* ---- McpProtocolHandler ----------------------------------------------------
\* InitializeRequest(**request.params): pydantic accepts the params only when
\* every field is there and protocolVersion is a member of the enumeration.
InitializeRequestValid(req) ==
    req.params = "ok" /\ req.version \in McpProtocolVersion

\* handle_initialize: the response, and the session state after it.
handle_initialize_default_version(req, st) ==
    IF req.params = "absent"
    THEN [resp |-> create_error_response(INVALID_PARAMS), st |-> st]
    ELSE IF ~InitializeRequestValid(req)
    THEN [resp |-> create_error_response(INVALID_PARAMS), st |-> st]
    ELSE IF req.version \notin supported_versions
    THEN [resp |-> create_error_response(INVALID_PROTOCOL_VERSION), st |-> st]
    ELSE [resp |-> create_success_response("2025-06-18"),
          st |-> [initialized |-> TRUE, client_info |-> "set"]]

handle_initialize(req, st) ==
    IF req.params = "absent"
    THEN [resp |-> create_error_response(INVALID_PARAMS), st |-> st]
    ELSE IF ~InitializeRequestValid(req)
    THEN [resp |-> create_error_response(INVALID_PARAMS), st |-> st]
    ELSE IF req.version \notin supported_versions
    THEN [resp |-> create_error_response(INVALID_PROTOCOL_VERSION), st |-> st]
    ELSE [resp |-> create_success_response(req.version),
          st |-> [initialized |-> TRUE, client_info |-> "set"]]

\* handle_notifications_initialized
handle_notifications_initialized(req) == NoResponse

\* handle_ping
handle_ping(req) == create_success_response("-")

\* route_request: the response (NoResponse is None: "will be handled by the
\* endpoint handlers", or a notification) and the session state after it.
route_request_resets(req, st) ==
    IF req.method = "initialize"
    THEN LET r == handle_initialize(req, st)
         IN  IF r.resp.kind = "error"
             THEN [resp |-> r.resp, st |-> [initialized |-> FALSE, client_info |-> "-"]]
             ELSE r
    ELSE IF req.method = "notifications/initialized"
    THEN [resp |-> handle_notifications_initialized(req), st |-> st]
    ELSE IF req.method = "ping"
    THEN [resp |-> handle_ping(req), st |-> st]
    ELSE IF ~st.initialized /\ req.method \notin {"initialize", "notifications/initialized"}
    THEN [resp |-> create_error_response(INVALID_REQUEST), st |-> st]
    ELSE [resp |-> NoResponse, st |-> st]

\* route_request with ping behind the initialization gate.
route_request_gates_ping(req, st) ==
    IF req.method = "initialize"
    THEN handle_initialize(req, st)
    ELSE IF req.method = "notifications/initialized"
    THEN [resp |-> handle_notifications_initialized(req), st |-> st]
    ELSE IF ~st.initialized
    THEN [resp |-> create_error_response(INVALID_REQUEST), st |-> st]
    ELSE IF req.method = "ping"
    THEN [resp |-> handle_ping(req), st |-> st]
    ELSE [resp |-> NoResponse, st |-> st]

route_request(req, st) ==
    IF req.method = "initialize"
    THEN handle_initialize(req, st)
    ELSE IF req.method = "notifications/initialized"
    THEN [resp |-> handle_notifications_initialized(req), st |-> st]
    ELSE IF req.method = "ping"
    THEN [resp |-> handle_ping(req), st |-> st]
    ELSE IF ~st.initialized /\ req.method \notin {"initialize", "notifications/initialized"}
    THEN [resp |-> create_error_response(INVALID_REQUEST), st |-> st]
    ELSE [resp |-> NoResponse, st |-> st]


\* ---- McpEndpoints ----------------------------------------------------------
\* Every handler gives the response and what it executed.
Out(r, ep, tool, enq) ==
    [resp |-> r, effect |-> [endpoint |-> ep, tool |-> tool, enqueued |-> enq]]

\* handle_tools_list
handle_tools_list(req) == Out(create_success_response("-"), "tools/list", "-", FALSE)

\* _handle_generate_video
handle_generate_video(req, env) ==
    IF ~req.arg
    THEN Out(create_error_response(INVALID_PARAMS), "tools/call", "generate_video", FALSE)
    ELSE IF ~env.creds_valid
    THEN Out(create_error_response(TOOL_EXECUTION_ERROR), "tools/call", "generate_video", FALSE)
    ELSE IF ~env.params_valid
    THEN Out(create_error_response(TOOL_EXECUTION_ERROR), "tools/call", "generate_video", FALSE)
    ELSE IF env.raises
    THEN Out(create_error_response(TOOL_EXECUTION_ERROR), "tools/call", "generate_video", FALSE)
    ELSE Out(create_success_response("-"), "tools/call", "generate_video", TRUE)

\* _handle_generate_audio
handle_generate_audio(req, env) ==
    IF ~req.arg
    THEN Out(create_error_response(INVALID_PARAMS), "tools/call", "generate_audio", FALSE)
    ELSE IF ~env.creds_valid
    THEN Out(create_error_response(TOOL_EXECUTION_ERROR), "tools/call", "generate_audio", FALSE)
    ELSE IF env.raises
    THEN Out(create_error_response(TOOL_EXECUTION_ERROR), "tools/call", "generate_audio", FALSE)
    ELSE Out(create_success_response("-"), "tools/call", "generate_audio", TRUE)

\* _handle_analyze_writing_style.  The Gemini key is handed to
\* analyze_writing_style as its second positional parameter, provider, so the
\* call raises "Unsupported provider" whenever a key is there; without a key
\* the handler answers the error itself.
handle_analyze_writing_style(req, env) ==
    IF ~req.arg
    THEN Out(create_error_response(INVALID_PARAMS), "tools/call", "analyze_writing_style", FALSE)
    ELSE Out(create_error_response(TOOL_EXECUTION_ERROR), "tools/call", "analyze_writing_style", FALSE)

\* _handle_check_job_status (env.creds_valid stands for "the job id is known")
handle_check_job_status(req, env) ==
    IF ~req.arg
    THEN Out(create_error_response(INVALID_PARAMS), "tools/call", "check_job_status", FALSE)
    ELSE IF env.raises
    THEN Out(create_error_response(TOOL_EXECUTION_ERROR), "tools/call", "check_job_status", FALSE)
    ELSE IF ~env.creds_valid
    THEN Out(create_error_response(RESOURCE_NOT_FOUND), "tools/call", "check_job_status", FALSE)
    ELSE Out(create_success_response("-"), "tools/call", "check_job_status", FALSE)

\* handle_tools_call
handle_tools_call(req, env) ==
    IF req.params = "absent"
    THEN Out(create_error_response(INVALID_PARAMS), "tools/call", "-", FALSE)
    ELSE IF req.params = "malformed"   \* McpToolsCallParams(**params) raises
    THEN Out(create_error_response(TOOL_EXECUTION_ERROR), "tools/call", "-", FALSE)
    ELSE IF req.name = "generate_video" THEN handle_generate_video(req, env)
    ELSE IF req.name = "generate_audio" THEN handle_generate_audio(req, env)
    ELSE IF req.name = "analyze_writing_style" THEN handle_analyze_writing_style(req, env)
    ELSE IF req.name = "check_job_status" THEN handle_check_job_status(req, env)
    ELSE Out(create_error_response(METHOD_NOT_FOUND), "tools/call", "-", FALSE)

\* handle_resources_list
handle_resources_list(req) == Out(create_success_response("-"), "resources/list", "-", FALSE)

\* handle_resources_read and _read_job_resource
handle_resources_read(req, env) ==
    IF req.params = "absent"
    THEN Out(create_error_response(INVALID_PARAMS), "resources/read", "-", FALSE)
    ELSE IF req.params = "malformed"   \* McpResourcesReadParams(**params) raises
    THEN Out(create_error_response(RESOURCE_NOT_FOUND), "resources/read", "-", FALSE)
    ELSE IF req.name = "other"
    THEN Out(create_error_response(RESOURCE_NOT_FOUND), "resources/read", "-", FALSE)
    ELSE IF env.raises \/ req.name = "job_unknown"
    THEN Out(create_error_response(RESOURCE_NOT_FOUND), "resources/read", "-", FALSE)
    ELSE Out(create_success_response("-"), "resources/read", "-", FALSE)

\* handle_prompts_list
handle_prompts_list(req) == Out(create_success_response("-"), "prompts/list", "-", FALSE)

\* handle_prompts_get
handle_prompts_get(req) ==
    IF req.params = "absent"
    THEN Out(create_error_response(INVALID_PARAMS), "prompts/get", "-", FALSE)
    ELSE IF req.params = "malformed"   \* McpPromptsGetParams(**params) raises
    THEN Out(create_error_response(INVALID_PARAMS), "prompts/get", "-", FALSE)
    ELSE IF req.name \in {"video_generation", "podcast_generation", "style_analysis"}
    THEN Out(create_success_response("-"), "prompts/get", "-", FALSE)
    ELSE Out(create_error_response(RESOURCE_NOT_FOUND), "prompts/get", "-", FALSE)

\* The dispatch by method name that both transports spell out
\* (McpTransport._process_mcp_message, StreamableHttpTransport._route_to_endpoint).
route_to_endpoint_lists_tools(req, env) ==
    IF req.method = "tools/call" THEN handle_tools_call(req, env)
    ELSE IF req.method = "resources/list" THEN handle_resources_list(req)
    ELSE IF req.method = "resources/read" THEN handle_resources_read(req, env)
    ELSE IF req.method = "prompts/list" THEN handle_prompts_list(req)
    ELSE IF req.method = "prompts/get" THEN handle_prompts_get(req)
    ELSE handle_tools_list(req)

route_to_endpoint(req, env) ==
    IF req.method = "tools/list" THEN handle_tools_list(req)
    ELSE IF req.method = "tools/call" THEN handle_tools_call(req, env)
    ELSE IF req.method = "resources/list" THEN handle_resources_list(req)
    ELSE IF req.method = "resources/read" THEN handle_resources_read(req, env)
    ELSE IF req.method = "prompts/list" THEN handle_prompts_list(req)
    ELSE IF req.method = "prompts/get" THEN handle_prompts_get(req)
    ELSE Out(create_error_response(METHOD_NOT_FOUND), "-", "-", FALSE)

\* ---- the transports --------------------------------------------------------
\* Each gives [resp, st, effect, streamed].
Handled(r, st, eff, streamed) == [resp |-> r, st |-> st, effect |-> eff, streamed |-> streamed]

\* McpProtocolHandler.process_message (on a well-formed envelope)
process_message(req, st) ==
    LET r == route_request(req, st)
    IN  Handled(r.resp, r.st, NoEffect, FALSE)

\* McpTransport._process_mcp_message: "if response:" is false for None only.
process_mcp_message(req, st, env) ==
    LET r == route_request(req, st)
    IN  IF r.resp.kind # "none"
        THEN Handled(r.resp, r.st, NoEffect, FALSE)
        ELSE LET out == route_to_endpoint(req, env)
             IN  Handled(out.resp, r.st, out.effect, FALSE)

\* McpTransport.handle_json_rpc_post (on a well-formed envelope)
handle_json_rpc_post(req, st, env) ==
    LET h == process_mcp_message(req, st, env)
    IN  IF h.resp.kind = "none"
        THEN Handled(Response("null_result", 0, "-"), h.st, h.effect, FALSE)
        ELSE h

\* StreamableHttpTransport._should_stream_operation
should_stream_operation_any_tool(req, client_wants_streaming) ==
    req.method = "tools/call" /\ client_wants_streaming

should_stream_operation(req, client_wants_streaming) ==
    IF req.method # "tools/call" THEN FALSE
    ELSE IF ~client_wants_streaming THEN FALSE
    ELSE (IF req.params = "absent" THEN "" ELSE req.name) \in STREAMING_TOOLS

\* StreamableHttpTransport._handle_json_response
handle_json_response(req, st, env) ==
    LET r == route_request(req, st)
    IN  IF r.resp.kind # "none"
        THEN Handled(r.resp, r.st, NoEffect, FALSE)
        ELSE LET out == route_to_endpoint(req, env)
             IN  Handled(out.resp, r.st, out.effect, FALSE)

\* StreamableHttpTransport._handle_streaming_response, up to the first event:
\* the request goes straight to _route_to_endpoint.
handle_streaming_response(req, st, env) ==
    LET out == route_to_endpoint(req, env)
    IN  Handled(out.resp, st, out.effect, TRUE)

\* StreamableHttpTransport.handle_request (on a well-formed envelope).
\* header: the MCP-Protocol-Version header, "-" when the request has none.
handle_request(req, header, client_wants_streaming, st, env) ==
    LET protocol_version == IF header = "-" THEN "2025-03-26" ELSE header
    IN  IF protocol_version \notin HeaderVersions
        THEN Handled(create_error_response(INVALID_PROTOCOL_VERSION), st, NoEffect, FALSE)
        ELSE IF should_stream_operation(req, client_wants_streaming)
        THEN handle_streaming_response(req, st, env)
        ELSE handle_json_response(req, st, env)

\* McpProtocolHandler.process_message on a body that holds no request:
\* json.loads fails, or validate_json_rpc gives None.
process_message_raw(body, st) ==
    IF body \in {"empty", "not_json"}
    THEN Handled(create_error_response(PARSE_ERROR), st, NoEffect, FALSE)
    ELSE Handled(create_error_response(INVALID_REQUEST), st, NoEffect, FALSE)

\* McpTransport.handle_json_rpc_post on a body that holds no request.  The
\* HTTPException(400) of an empty body is raised inside the try block and
\* caught by its "except Exception", which raises HTTPException(500);
\* _process_mcp_message turns a failing json.loads or JsonRpcRequest(**data)
\* into the error -32603.
handle_json_rpc_post_raw(body, st) ==
    IF body = "empty"
    THEN Handled(Response("http_error", 500, "-"), st, NoEffect, FALSE)
    ELSE Handled(create_error_response(INTERNAL_ERROR), st, NoEffect, FALSE)

\* StreamableHttpTransport.handle_request on a body that holds no request.
handle_request_raw(body, header, st) ==
    LET protocol_version == IF header = "-" THEN "2025-03-26" ELSE header
    IN  IF protocol_version \notin HeaderVersions
        THEN Handled(create_error_response(INVALID_PROTOCOL_VERSION), st, NoEffect, FALSE)
        ELSE IF body = "empty"
        THEN Handled(Response("http_error", 500, "-"), st, NoEffect, FALSE)
        ELSE IF body = "not_json"
        THEN Handled(Response("http_error", 400, "-"), st, NoEffect, FALSE)
        ELSE Handled(Response("http_error", 500, "-"), st, NoEffect, FALSE)

\* StreamableHttpTransport._extract_job_id: the tool's text holds "Job ID:"
\* exactly when the tool enqueued a job.
extract_job_id(h, job_id) == IF h.resp.kind = "result" /\ h.effect.enqueued THEN job_id ELSE 0

\* ---- actions ---------------------------------------------------------------
Session == [initialized |-> initialized, client_info |-> client_info]
ClientIds == 1..MaxStreams
Headers == {"-", "2024-11-05", "2025-06-18", "2099-01-01"}

\* Whether the Accept header names text/event-stream: both cases for a tool
\* call and, standing for the methods that are never streamed, for ping.
WantsFor(req) ==
    IF req.method \in {"tools/call", "ping"} THEN BOOLEAN ELSE {FALSE}

\* The state after a transport handled req along path with outcome h.
Apply(req, body, env, path, header, wants, h) ==
    /\ h.effect.enqueued => queue_len < MaxJobs
    /\ initialized' = h.st.initialized
    /\ client_info' = h.st.client_info
    /\ last' = [req |-> req, env |-> env, streamed |-> h.streamed, header |-> header,
                body |-> body, path |-> path, wants |-> wants,
                init_before |-> initialized]
    /\ resp' = h.resp
    /\ effect' = h.effect
    /\ queue_len' = IF h.effect.enqueued THEN queue_len + 1 ELSE queue_len
    /\ UNCHANGED <<jobVars, notifyVars, restVars>>

\* A message handed to McpProtocolHandler.process_message.
ProcessMessage ==
    \E req \in Requests :
        /\ Apply(req, "json_rpc", CalmEnv, "handler", "-", FALSE,
                 process_message(req, Session))
        /\ UNCHANGED <<active_streams, job_streams>>

\* POST /mcp-rpc.
LegacyPost ==
    \E req \in Requests :
      \E env \in EnvsFor(req) :
        /\ Apply(req, "json_rpc", env, "legacy", "-", FALSE,
                 handle_json_rpc_post(req, Session, env))
        /\ UNCHANGED <<active_streams, job_streams>>

\* A request to the unified endpoint; a streamed one registers its stream
\* under a fresh client id and, when the tool started a job, ties the job to it.
UnifiedRequest ==
    \E req \in Requests, header \in Headers :
      \E env \in EnvsFor(req), wants \in WantsFor(req) :
        LET h == handle_request(req, header, wants, Session, env)
        IN  /\ Apply(req, "json_rpc", env, "unified", header, wants, h)
            /\ IF h.streamed
               THEN \E c \in ClientIds \ active_streams :
                        /\ active_streams' = active_streams \cup {c}
                        /\ job_streams' =
                             IF extract_job_id(h, queue_len + 1) # 0
                             THEN job_streams \cup {<<queue_len + 1, c>>}
                             ELSE job_streams
               ELSE UNCHANGED <<active_streams, job_streams>>

\* A body without a request handed to McpProtocolHandler.process_message.
ProcessBadMessage ==
    \E body \in BadBodies :
        /\ Apply(NoReq, body, CalmEnv, "handler", "-", FALSE,
                 process_message_raw(body, Session))
        /\ UNCHANGED <<active_streams, job_streams>>

\* POST /mcp-rpc with a body without a request.
LegacyBadPost ==
    \E body \in BadBodies :
        /\ Apply(NoReq, body, CalmEnv, "legacy", "-", FALSE,
                 handle_json_rpc_post_raw(body, Session))
        /\ UNCHANGED <<active_streams, job_streams>>

\* A body without a request sent to the unified endpoint.
UnifiedBadRequest ==
    \E body \in BadBodies, header \in Headers :
        /\ Apply(NoReq, body, CalmEnv, "unified", header, FALSE,
                 handle_request_raw(body, header, Session))
        /\ UNCHANGED <<active_streams, job_streams>>

\* The client of a stream goes away: the generator's finally clause.
StreamClose ==
    \E c \in active_streams :
        /\ active_streams' = active_streams \ {c}
        /\ job_streams' = {p \in job_streams : p[2] # c}
        /\ UNCHANGED <<initialized, client_info, last, resp, effect, queue_len>>
        /\ UNCHANGED <<jobVars, notifyVars, restVars>>

ProtoInit ==
    /\ initialized = FALSE
    /\ client_info = "-"
    /\ last = [req |-> NoReq, env |-> CalmEnv, streamed |-> FALSE, header |-> "-",
               body |-> "-", path |-> "-", wants |-> FALSE, init_before |-> FALSE]
    /\ resp = NoResponse
    /\ effect = NoEffect
    /\ queue_len = 0
    /\ active_streams = {}
    /\ job_streams = {}


ProtoNext ==
    \/ ProcessMessage \/ LegacyPost \/ UnifiedRequest
    \/ ProcessBadMessage \/ LegacyBadPost \/ UnifiedBadRequest
    \/ StreamClose

\* ---- properties of the protocol session (under SpecProto) -----------------
\* The request handled last got as far as the protocol handler: the body held
\* a request, and the unified endpoint turns a request away on its header
\* before reading it.
ReachedHandler ==
    /\ last.body = "json_rpc"
    /\ \/ last.path \in {"handler", "legacy"}
       \/ last.path = "unified" /\ (last.header = "-" \/ last.header \in HeaderVersions)

ProtocolMethods == {"initialize", "notifications/initialized", "ping"}

\* C1: while the session is uninitialized, a request whose method is not
\* initialize, notifications/initialized or ping is answered with the "not
\* initialized" error and executes nothing (no tool handler, no job enqueued),
\* on the legacy POST endpoint, on the unified endpoint's JSON response and on
\* the unified endpoint's streamed tools/call.
C1_GateOnEveryPath ==
    (/\ last.path \in {"legacy", "unified"}
     /\ ReachedHandler
     /\ ~last.init_before
     /\ last.req.method \notin ProtocolMethods)
    => /\ resp = create_error_response(INVALID_REQUEST)
       /\ effect = NoEffect

\* C7: the initialized flag starts false, becomes true only in a step that
\* handles an initialize call answered with a result, and no step resets it.
C7_InitializedOnlyRises ==
    /\ initialized = FALSE
    /\ [][/\ initialized => initialized'
          /\ (~initialized /\ initialized') =>
                (last'.req.method = "initialize" /\ resp'.kind = "result")]_vars

\* An initialized session got a failed initialize call and is still initialized.
C7_FailedInitializeAfterInit ==
    /\ initialized
    /\ last.init_before
    /\ last.req.method = "initialize"
    /\ resp.kind = "error"

C9_UnsupportedVersionRejected ==
    (/\ ReachedHandler
     /\ last.req.method = "initialize"
     /\ last.req.params = "ok"
     /\ last.req.version \notin supported_versions)
    => /\ resp = create_error_response(INVALID_PROTOCOL_VERSION)
       /\ initialized = last.init_before

\* C10: a notifications/initialized request gets no JSON-RPC response and no
\* error, in the protocol handler, through the legacy transport and through
\* the unified transport, whatever the session state.
C10_NotificationUnanswered ==
    (ReachedHandler /\ last.req.method = "notifications/initialized")
    => resp.kind \in {"none", "null_result"}



KnownMethods == ProtocolMethods \cup {"tools/list", "tools/call", "resources/list",
                                      "resources/read", "prompts/list", "prompts/get"}

\* C11: in an initialized session, a request whose method is none of the
\* protocol methods and none of the six endpoint methods is answered by the
\* legacy and by the unified transport with error -32601, and no endpoint
\* handler runs.
C11_UnknownMethodNotFound ==
    (/\ last.path \in {"legacy", "unified"}
     /\ ReachedHandler
     /\ last.init_before
     /\ last.req.method \notin KnownMethods)
    => /\ resp = create_error_response(METHOD_NOT_FOUND)
       /\ effect = NoEffect

\* The unified endpoint answered an unknown method of an initialized session.
C11_UnifiedUnknownMethod ==
    /\ last.path = "unified"
    /\ ReachedHandler
    /\ last.init_before
    /\ last.req.method = "unknown/method"
    /\ resp.code = METHOD_NOT_FOUND

\* C12: a tools/call, resources/read or prompts/get request whose params are
\* missing or malformed is answered with error -32602, no tool runs and no
\* job is enqueued.
C12_BadParamsInvalidParams ==
    (/\ last.path \in {"legacy", "unified"}
     /\ ReachedHandler
     /\ last.init_before
     /\ last.req.method \in {"tools/call", "resources/read", "prompts/get"}
     /\ last.req.params \in {"absent", "malformed"})
    => /\ resp = create_error_response(INVALID_PARAMS)
       /\ effect.tool = "-"
       /\ ~effect.enqueued

\* C13: whatever the body sent to a JSON-RPC endpoint (empty, not JSON, not a
\* request envelope, or a call whose tool raises), the answer is a JSON-RPC
\* envelope with a result or a numeric error code, -32002 when a tool raised;
\* no HTTP error leaves the transport.
C13_AlwaysAnEnvelope ==
    last.path \in {"legacy", "unified"}
    => /\ resp.kind \in {"result", "error", "null_result"}
       /\ (/\ ReachedHandler
           /\ last.init_before
           /\ last.req.method = "tools/call"
           /\ last.req.params = "ok"
           /\ last.req.name \in {"generate_video", "generate_audio", "check_job_status"}
           /\ last.req.arg
           /\ last.env.raises)
          => resp = create_error_response(TOOL_EXECUTION_ERROR)

\* C23: a request the unified endpoint processes is answered with an SSE
\* stream exactly when its method is tools/call, its Accept header names
\* text/event-stream and the tool it names is generate_video or
\* generate_audio; a request the endpoint does not process is never streamed.
C23_StreamsExactlyLongRunning ==
    last.path = "unified" =>
        IF ReachedHandler
        THEN last.streamed <=> (/\ last.req.method = "tools/call"
                                /\ last.wants
                                /\ last.req.name \in {"generate_video", "generate_audio"})
        ELSE ~last.streamed

\* C23 (witness): a generate_audio call that asked for a stream was streamed.
C23_StreamedToolCall ==
    /\ last.path = "unified"
    /\ last.req.method = "tools/call"
    /\ last.req.name = "generate_audio"
    /\ last.wants
    /\ last.streamed

\* C24: the unified endpoint processes a request whose MCP-Protocol-Version
\* header is one of the versions initialize supports (a ping is answered with
\* its result), and answers any other header value with the version error,
\* leaving the session as it was and running nothing.
C24_HeaderVersionsAsInitialize ==
    (last.path = "unified" /\ last.body = "json_rpc" /\ last.header # "-") =>
        IF last.header \in supported_versions
        THEN last.req.method = "ping" => resp = create_success_response("-")
        ELSE /\ resp = create_error_response(INVALID_PROTOCOL_VERSION)
             /\ initialized = last.init_before
             /\ effect = NoEffect

\* C25: a ping that reaches the protocol handler, on any path and in either
\* session state, is answered with a success response with an empty result,
\* and the session state after it is the state before it.
C25_PingAlwaysSucceeds ==
    (ReachedHandler /\ last.req.method = "ping") =>
        /\ resp = create_success_response("-")
        /\ initialized = last.init_before
        /\ effect = NoEffect

\* C25 (witness): a ping was answered in a session that is not initialized.
C25_PingBeforeInitialize ==
    /\ ReachedHandler
    /\ last.path = "handler"
    /\ last.req.method = "ping"
    /\ ~last.init_before
    /\ ~initialized
    /\ resp.kind = "result"

\* C26: process_message answers a request whose method is unknown with a
\* JSON-RPC error response, whether or not the session is initialized.
C26_HandlerRejectsUnknownMethod ==
    (last.path = "handler" /\ last.body = "json_rpc"
        /\ last.req.method \notin KnownMethods) =>
        resp.kind = "error"

(***************************************************************************)
(*               Part II: the job pipelines and status queries             *)
(***************************************************************************)

\* clear_sensitive_data: sensitive_keys
sensitive_keys == {"gemini_api_key", "openai_api_key", "google_cloud_credentials",
                   "elevenlabs_api_key", "credentials"}

\* dict.get(key, default)
Get(m, k, d) == IF k \in DOMAIN m THEN m[k] ELSE d

\* m[k] = v on a dict
Put(m, k, v) == [x \in DOMAIN m \cup {k} |-> IF x = k THEN v ELSE m[x]]

\* clear_sensitive_data
clear_sensitive_data_keeps_all(job_meta) == job_meta

clear_sensitive_data(job_meta) ==
    [k \in DOMAIN job_meta \ sensitive_keys |-> job_meta[k]]

\* ---- URLs ------------------------------------------------------------------
\* The blobs of the model and their two names.
GcsUri == "gs://bucket/videos/job/sample_0.mp4"
VideoUrl == "https://storage.googleapis.com/bucket/videos/job/sample_0.mp4"
Mp3Url == "https://storage.googleapis.com/bucket/audio/a.mp3"
ConvertedUrl == "https://storage.googleapis.com/bucket/audio/a_converted.m4a"
ThumbUrl == "https://storage.googleapis.com/bucket/thumbnails/t.png"
ExternalUrl == "https://example.com/v.mp4"

\* main.py resolve_gcs_url: a gs:// URI becomes the blob's public URL (by
\* make_public or, failing that, by the canonical format: the same string); a
\* public URL of the bucket and an external URL come back as they are.
resolve_gcs_url(url) ==
    IF url = "-" THEN url
    ELSE IF url = GcsUri THEN VideoUrl
    ELSE url

\* websocket_manager.py resolve_gcs_url (defined locally in send_current_status)
ws_resolve_gcs_url(url) ==
    IF url = "-" THEN url
    ELSE IF url = GcsUri THEN VideoUrl
    ELSE url

\* ---- notifications ---------------------------------------------------------
Msg(type, status, progress, step, url, err) ==
    [type |-> type, status |-> status, progress |-> progress, current_step |-> step,
     download_url |-> url, error |-> err]

\* WebSocketManager.notify_progress
notify_progress(progress, current_step, step_number, total) ==
    [type |-> "progress", status |-> "started", progress |-> progress,
     current_step |-> current_step, download_url |-> "-", error |-> "-",
     step_number |-> step_number, total_steps |-> total]

\* WebSocketManager.notify_completion: the message is built from the stored
\* job; the worker calls it before it returns, so the job is not finished yet.
notify_completion(download_url) ==
    LET finished_audio == job_status = "finished" /\ result.type = "audio"
        url == IF finished_audio THEN ws_resolve_gcs_url(result.url)
               ELSE IF job_status = "finished" /\ result.type = "url"
               THEN ws_resolve_gcs_url(result.url)
               ELSE "-"
    IN  [type |-> "completion",
         status |-> IF job_status = "finished" THEN "finished" ELSE job_status,
         progress |-> Get(stored_meta, "progress", 100),
         current_step |-> Get(stored_meta, "current_step", "Complete"),
         download_url |-> IF url = "-" THEN download_url ELSE url,
         error |-> "-",
         step_number |-> Get(stored_meta, "step_number",
                             Get(stored_meta, "total_steps", 1)),
         total_steps |-> Get(stored_meta, "total_steps", 1),
         display_audio_url |->
             IF ~finished_audio THEN "-"
             ELSE IF result.display_audio_url # "-"
             THEN ws_resolve_gcs_url(result.display_audio_url) ELSE url,
         download_audio_url |->
             IF ~finished_audio THEN "-"
             ELSE IF result.download_audio_url # "-"
             THEN ws_resolve_gcs_url(result.download_audio_url) ELSE url,
         thumbnail_url |->
             IF finished_audio THEN ws_resolve_gcs_url(result.thumbnail_url)
             ELSE "-"]

\* WebSocketManager.notify_error
notify_error(error_message) ==
    Msg("error", "failed", 0, "Job failed", "-", error_message)

\* ---- the worker ------------------------------------------------------------
\* job.result: None, a URL string, the video pipeline's
\* {status: submitted, operation_name}, or the audio pipeline's record.
NoResult == [type |-> "none", url |-> "-", operation_name |-> "-",
             display_audio_url |-> "-", download_audio_url |-> "-",
             thumbnail_url |-> "-"]

NoLocals == [operation_name |-> "-", video_url |-> "-", public_ok |-> FALSE,
             generate_thumbnail |-> FALSE,
             audio_format |-> "-", converted |-> FALSE, thumbnail_url |-> "-",
             display_audio_url |-> "-", download_audio_url |-> "-",
             failed_soft |-> {}]

NoQuery == [via |-> "-", known |-> FALSE, queue_status |-> "-", status |-> "-",
            progress |-> 0, current_step |-> "-", url |-> "-", operation_name |-> "-",
            step_number |-> 0, total_steps |-> 0]

\* job.meta when the worker takes the job: what the enqueuer stored in the
\* queue record.  The pipelines assume nothing about it.
InitialMetas ==
    {[k \in S |-> "secret"] : S \in {{}, {"credentials"},
                                      {"gemini_api_key", "openai_api_key"},
                                      sensitive_keys}}

\* job.meta[...] = ...; job.save_meta(): the step bookkeeping of a pipeline step
\* (step_number 0, total 0: the step does not write that key)
StepMeta(m, progress, current_step, step_number, total) ==
    LET m1 == Put(Put(m, "progress", progress), "current_step", current_step)
        m2 == IF step_number > 0 THEN Put(m1, "step_number", step_number) ELSE m1
    IN  IF total > 0 THEN Put(m2, "total_steps", total) ELSE m2

\* The worker goes on to position next, leaving the rest of the job alone.
Goto(next) == pc' = next /\ UNCHANGED <<protoVars, notifyVars, restVars>>

\* The local variable total_steps of gen_video and of gen_audio.
total_steps == IF kind = "video" THEN 3 ELSE IF locals.generate_thumbnail THEN 5 ELSE 4

\* A step's bookkeeping: the worker writes progress and current_step, and
\* step_number and total_steps where the code writes them (0: not written),
\* saves the metadata, and then publishes the progress with the step number
\* the call names.
ProgressStep(here, notify, next, progress, current_step, step_number, total, notified_step) ==
    \/ /\ pc = here
       /\ Goto(notify)
       /\ meta' = StepMeta(meta, progress, current_step, step_number, total)
       /\ stored_meta' = meta'
       /\ UNCHANGED <<kind, job_status, result, published, exc, vendor, locals, query>>
    \/ /\ pc = notify
       /\ Goto(next)
       /\ published' = Append(published,
                              notify_progress(progress, current_step, notified_step,
                                              total_steps))
       /\ UNCHANGED <<kind, meta, stored_meta, job_status, result, exc, vendor, locals,
                      query>>

\* A call of a collaborator that either succeeds or raises msg into the
\* pipeline's except clause.
Raise(msg) ==
    /\ exc' = msg
    /\ pc' = "except"
    /\ UNCHANGED <<protoVars, notifyVars, restVars>>
    /\ UNCHANGED <<kind, meta, stored_meta, job_status, result, published, vendor,
                   locals, query>>

\* The worker claims the queued job and calls its function.
Claim ==
    /\ pc = "queued"
    /\ job_status' = "started"
    /\ pc' = IF kind = "video" THEN "v_step1" ELSE "a_setup"
    /\ UNCHANGED <<protoVars, notifyVars, restVars>>
    /\ UNCHANGED <<kind, meta, stored_meta, result, published, exc, vendor, locals, query>>


\* ---- gen_video -------------------------------------------------------------
\* What the immediate status check (fetch_operation_status) finds.
VendorOutcomes == {"raises", "not_done", "done_error", "done_uri", "done_no_video"}

\* The try block around the immediate status check: the video URL it leaves.
\* Its "except Exception" clause catches whatever the block raises (the
\* ValueError of an immediate failure, a failing fetch, a failing
\* make_blob_public_safe), so nothing leaves it but the URL.
ImmediateCheck_ignores_response(outcome, public_ok) == "-"

ImmediateCheck(outcome, public_ok) ==
    IF outcome = "done_uri" /\ public_ok THEN VideoUrl ELSE "-"

VideoStep1 ==
    ProgressStep("v_step1", "v_notify1", "v_auth", 10, "Initializing video generation",
                 1, total_steps, 1)

VideoAuth ==
    /\ pc = "v_auth"
    /\ \/ /\ Goto("v_step2")
          /\ UNCHANGED <<kind, meta, stored_meta, job_status, result, published, exc,
                         vendor, locals, query>>
       \/ Raise("credentials could not be refreshed")

VideoStep2 ==
    ProgressStep("v_step2", "v_notify2", "v_submit", 50,
                 "Submitting video generation request", 2, 0, 2)

VideoSubmit ==
    /\ pc = "v_submit"
    /\ \/ /\ Goto("v_check_meta")
          /\ locals' = [locals EXCEPT !.operation_name = "operations/op1"]
          /\ UNCHANGED <<kind, meta, stored_meta, job_status, result, published, exc,
                         vendor, query>>
       \/ Raise("predictLongRunning failed")

VideoCheckMeta ==
    ProgressStep("v_check_meta", "v_notify_check", "v_immediate", 55,
                 "Checking initial operation status", 0, 0, 3)

VideoImmediateCheck ==
    /\ pc = "v_immediate"
    /\ \E outcome \in VendorOutcomes, public_ok \in BOOLEAN :
         LET video_url == ImmediateCheck(outcome, public_ok)
         IN  /\ vendor' = outcome
             /\ locals' = [locals EXCEPT !.video_url = video_url,
                                         !.public_ok = public_ok]
             /\ pc' = IF video_url # "-" THEN "v_store_info" ELSE "v_mark_running"
    /\ UNCHANGED <<protoVars, notifyVars, restVars>>
    /\ UNCHANGED <<kind, meta, stored_meta, job_status, result, published, exc, query>>

VideoStoreInfo ==
    /\ pc = "v_store_info"
    /\ \/ /\ Goto("v_mark_complete")
          /\ UNCHANGED <<kind, meta, stored_meta, job_status, result, published, exc,
                         vendor, locals, query>>
       \/ Raise("metadata upload failed")

VideoMarkComplete ==
    /\ pc = "v_mark_complete"
    /\ Goto("v_notify_complete")
    /\ meta' = clear_sensitive_data(
                   StepMeta(meta, 100, "Complete - Video ready!", 0, 0))
    /\ stored_meta' = meta'
    /\ UNCHANGED <<kind, job_status, result, published, exc, vendor, locals, query>>

VideoNotifyComplete ==
    /\ pc = "v_notify_complete"
    /\ Goto("v_return")
    /\ published' = Append(published, notify_completion(locals.video_url))
    /\ UNCHANGED <<kind, meta, stored_meta, job_status, result, exc, vendor, locals, query>>

VideoReturn ==
    /\ pc = "v_return"
    /\ Goto("done")
    /\ result' = [NoResult EXCEPT !.type = "url", !.url = locals.video_url]
    /\ job_status' = "finished"
    /\ UNCHANGED <<kind, meta, stored_meta, published, exc, vendor, locals, query>>

VideoMarkRunning ==
    /\ pc = "v_mark_running"
    /\ Goto("v_notify_running")
    /\ meta' = clear_sensitive_data(
                   Put(Put(StepMeta(meta, 60,
                               "Video generation in progress - check status manually", 0, 0),
                           "operation_name", locals.operation_name),
                       "status", "running"))
    /\ stored_meta' = meta'
    /\ UNCHANGED <<kind, job_status, result, published, exc, vendor, locals, query>>

VideoNotifyRunning ==
    /\ pc = "v_notify_running"
    /\ Goto("v_return_submitted")
    /\ published' = Append(published,
                        notify_progress(60,
                            "Video generation in progress - use status endpoints",
                            3, total_steps))
    /\ UNCHANGED <<kind, meta, stored_meta, job_status, result, exc, vendor, locals, query>>

VideoReturnSubmitted ==
    /\ pc = "v_return_submitted"
    /\ Goto("done")
    /\ result' = [NoResult EXCEPT !.type = "submitted",
                                  !.operation_name = locals.operation_name]
    /\ job_status' = "finished"
    /\ UNCHANGED <<kind, meta, stored_meta, published, exc, vendor, locals, query>>

\* ---- the except clause of gen_video and of gen_audio ------------------------
ExceptScrub ==
    /\ pc = "except"
    /\ Goto("e_notify")
    /\ meta' = clear_sensitive_data(meta)
    /\ stored_meta' = meta'
    /\ UNCHANGED <<kind, job_status, result, published, exc, vendor, locals, query>>

ExceptNotify_silent ==
    /\ pc = "e_notify"
    /\ Goto("e_raise")
    /\ UNCHANGED <<kind, meta, stored_meta, job_status, result, published, exc, vendor,
                   locals, query>>

ExceptNotify ==
    /\ pc = "e_notify"
    /\ Goto("e_raise")
    /\ published' = Append(published, notify_error(exc))
    /\ UNCHANGED <<kind, meta, stored_meta, job_status, result, exc, vendor, locals, query>>

\* "raise e": the queue records the job as failed and stores no result.
ExceptRaise ==
    /\ pc = "e_raise"
    /\ Goto("done")
    /\ job_status' = "failed"
    /\ UNCHANGED <<kind, meta, stored_meta, result, published, exc, vendor, locals, query>>


\* ---- gen_audio -------------------------------------------------------------
AudioSetup ==
    /\ pc = "a_setup"
    /\ \/ /\ Goto("a_step1")
          /\ UNCHANGED <<kind, meta, stored_meta, job_status, result, published, exc,
                         vendor, locals, query>>
       \/ Raise("storage client could not be created")

AudioStep1 ==
    ProgressStep("a_step1", "a_notify1", "a_script", 10, "Generating script with AI",
                 1, total_steps, 1)

AudioScript ==
    /\ pc = "a_script"
    /\ \/ /\ Goto("a_step2")
          /\ UNCHANGED <<kind, meta, stored_meta, job_status, result, published, exc,
                         vendor, locals, query>>
       \/ Raise("script generation failed")

AudioStep2 ==
    ProgressStep("a_step2", "a_notify2", "a_voice", 30,
                 "Initializing text-to-speech engine", 2, 0, 2)

\* The voice catalog lookup: a failure is caught and the fallback voice used.
AudioVoice ==
    /\ pc = "a_voice"
    /\ Goto("a_step3")
    /\ \E ok \in BOOLEAN :
         locals' = IF ok THEN locals
                   ELSE [locals EXCEPT !.failed_soft = @ \cup {"voice"}]
    /\ UNCHANGED <<kind, meta, stored_meta, job_status, result, published, exc, vendor, query>>

AudioStep3 ==
    ProgressStep("a_step3", "a_notify3", "a_tts", 60, "Converting text to speech",
                 3, 0, 3)

AudioTts ==
    /\ pc = "a_tts"
    /\ \/ /\ Goto("a_convert")
          /\ UNCHANGED <<kind, meta, stored_meta, job_status, result, published, exc,
                         vendor, locals, query>>
       \/ Raise("Unable to generate audio with any available ElevenLabs model")

\* The transcoding: attempted when the format is not mp3; a failure is caught.
AudioConvert ==
    /\ pc = "a_convert"
    /\ pc' = IF locals.generate_thumbnail THEN "a_step_thumb" ELSE "a_step_upload"
    /\ UNCHANGED <<protoVars, notifyVars, restVars>>
    /\ IF locals.audio_format # "mp3"
       THEN \E ok \in BOOLEAN :
              locals' = IF ok THEN [locals EXCEPT !.converted = TRUE]
                        ELSE [locals EXCEPT !.failed_soft = @ \cup {"convert"}]
       ELSE UNCHANGED locals
    /\ UNCHANGED <<kind, meta, stored_meta, job_status, result, published, exc, vendor, query>>

AudioStepThumb ==
    ProgressStep("a_step_thumb", "a_notify_thumb", "a_thumb", 70,
                 "Generating podcast thumbnail", 4, 0, 4)

\* The thumbnail: an image, a response without one, or a failure that is caught.
AudioThumb ==
    /\ pc = "a_thumb"
    /\ Goto("a_step_upload")
    /\ \E outcome \in {"image", "no_image", "fails"} :
         locals' = IF outcome = "image" THEN [locals EXCEPT !.thumbnail_url = ThumbUrl]
                   ELSE IF outcome = "fails"
                   THEN [locals EXCEPT !.failed_soft = @ \cup {"thumbnail"}]
                   ELSE locals
    /\ UNCHANGED <<kind, meta, stored_meta, job_status, result, published, exc, vendor, query>>

AudioStepUpload ==
    ProgressStep("a_step_upload", "a_notify_upload", "a_upload", 90,
                 "Uploading audio files to cloud storage",
                 IF locals.generate_thumbnail THEN 5 ELSE 4, 0,
                 IF locals.generate_thumbnail THEN 5 ELSE 4)

\* gen_audio's upload that uploads a converted file whenever another format
\* was requested.
AudioUpload_always_converted ==
    /\ pc = "a_upload"
    /\ Goto("a_final")
    /\ locals' = [locals EXCEPT
                    !.display_audio_url = Mp3Url,
                    !.download_audio_url =
                        IF locals.audio_format # "mp3" THEN ConvertedUrl ELSE Mp3Url]
    /\ UNCHANGED <<kind, meta, stored_meta, job_status, result, published, exc,
                   vendor, query>>

AudioUpload ==
    /\ pc = "a_upload"
    /\ \/ /\ Goto("a_final")
          /\ locals' = [locals EXCEPT
                          !.display_audio_url = Mp3Url,
                          !.download_audio_url =
                              IF locals.converted /\ locals.audio_format # "mp3"
                              THEN ConvertedUrl ELSE Mp3Url]
          /\ UNCHANGED <<kind, meta, stored_meta, job_status, result, published, exc,
                         vendor, query>>
       \/ Raise("upload failed")

AudioFinal ==
    /\ pc = "a_final"
    /\ Goto("a_notify")
    /\ meta' = clear_sensitive_data(StepMeta(meta, 100, "Complete", 0, 0))
    /\ stored_meta' = meta'
    /\ UNCHANGED <<kind, job_status, result, published, exc, vendor, locals, query>>

AudioNotify ==
    /\ pc = "a_notify"
    /\ Goto("a_return")
    /\ published' = Append(published, notify_completion(locals.display_audio_url))
    /\ UNCHANGED <<kind, meta, stored_meta, job_status, result, exc, vendor, locals, query>>

AudioReturn ==
    /\ pc = "a_return"
    /\ Goto("done")
    /\ result' = [NoResult EXCEPT !.type = "audio",
                                  !.url = locals.display_audio_url,
                                  !.display_audio_url = locals.display_audio_url,
                                  !.download_audio_url = locals.download_audio_url,
                                  !.thumbnail_url = locals.thumbnail_url]
    /\ job_status' = "finished"
    /\ UNCHANGED <<kind, meta, stored_meta, published, exc, vendor, locals, query>>


\* ---- status queries --------------------------------------------------------
\* What fetch_operation_status finds when check() polls a submitted operation.
PollOutcomes == {"raises", "not_done", "done_error", "done_uri", "done_pred", "done_no_url"}

\* The queue status a client is shown: the 'running' marker of the metadata
\* turns the queue's "finished" into "started".
ShownStatus_queue(custom_status, status) == status

ShownStatus(custom_status, status) ==
    IF custom_status = "running" /\ status = "finished" THEN "started" ELSE status

\* The status-specific defaults of check() and send_current_status().
ShownProgress_stored(status, progress) ==
    IF status = "queued" THEN 0
    ELSE IF status = "started" /\ progress = 0 THEN 5
    ELSE progress

ShownProgress(status, progress) ==
    IF status = "queued" THEN 0
    ELSE IF status = "started" /\ progress = 0 THEN 5
    ELSE IF status = "failed" THEN 0
    ELSE progress

ShownStep(status, progress, current_step) ==
    IF status = "queued" THEN "Job queued, waiting to start"
    ELSE IF status = "started" /\ progress = 0 THEN "Job started, initializing..."
    ELSE IF status = "failed" THEN "Job failed"
    ELSE current_step

ShownStepNumber(status, progress, step_number) ==
    IF status = "queued" THEN 0
    ELSE IF status = "started" /\ progress = 0 THEN 1
    ELSE step_number

Answer(via, known, st, progress, step, url, op, step_number, total) ==
    [via |-> via, known |-> known, queue_status |-> IF known THEN job_status ELSE "-",
     status |-> st, progress |-> progress, current_step |-> step, url |-> url,
     operation_name |-> op, step_number |-> step_number, total_steps |-> total]

\* main.py check(): GET /mcp/{job_id}.  known: whether q.fetch_job finds the job.
check(known, poll) ==
    IF ~known
    THEN Answer("http", FALSE, "not_found", -1, "Job not found", "-", "-", -1, -1)
    ELSE LET progress == Get(stored_meta, "progress", 0)
             current_step == Get(stored_meta, "current_step", "Processing...")
             custom_status == Get(stored_meta, "status", "-")
             status == ShownStatus(custom_status, job_status)
             is_finished == job_status = "finished"
             res == IF is_finished THEN result ELSE NoResult
             url == IF res.type = "audio" THEN resolve_gcs_url(res.url)
                    ELSE IF res.type = "submitted"
                    THEN (IF poll = "done_uri" THEN resolve_gcs_url(GcsUri)
                          ELSE IF poll = "done_pred" THEN resolve_gcs_url(ExternalUrl)
                          ELSE "-")
                    ELSE IF res.type = "url" THEN resolve_gcs_url(res.url)
                    ELSE "-"
             operation_name == IF res.type = "submitted" THEN res.operation_name
                               ELSE Get(stored_meta, "operation_name", "-")
         IN  Answer("http", TRUE, status, ShownProgress(status, progress),
                    ShownStep(status, progress, current_step), url, operation_name,
                    ShownStepNumber(status, progress, Get(stored_meta, "step_number", 0)),
                    Get(stored_meta, "total_steps", 1))

\* websocket_manager.py send_current_status(): the replay on connect.
send_current_status(known) ==
    IF ~known
    THEN Answer("ws", FALSE, "not_found", -1, "-", "-", "-", -1, -1)
    ELSE LET progress == Get(stored_meta, "progress", 0)
             current_step == Get(stored_meta, "current_step", "Processing...")
             custom_status == Get(stored_meta, "status", "-")
             status == IF custom_status = "running" /\ job_status = "finished"
                       THEN "started" ELSE job_status
             is_finished == job_status = "finished"
             res == IF is_finished THEN result ELSE NoResult
             url == IF res.type = "audio" THEN ws_resolve_gcs_url(res.url)
                    ELSE IF res.type = "url" THEN ws_resolve_gcs_url(res.url)
                    ELSE "-"
             operation_name == IF res.type = "submitted" THEN res.operation_name
                               ELSE Get(stored_meta, "operation_name", "-")
         IN  Answer("ws", TRUE, status, ShownProgress(status, progress),
                    ShownStep(status, progress, current_step), url, operation_name,
                    ShownStepNumber(status, progress, Get(stored_meta, "step_number", 0)),
                    Get(stored_meta, "total_steps", 1))

\* mcp_endpoints.py _handle_check_job_status(): the tool shows the queue's
\* status and the stored progress as they are, and the raw result.
check_job_status(known) ==
    IF ~known
    THEN Answer("tool", FALSE, "not_found", -1, "-", "-", "-", -1, -1)
    ELSE LET res == IF job_status = "finished" THEN result ELSE NoResult
         IN  Answer("tool", TRUE, job_status, Get(stored_meta, "progress", 0),
                    Get(stored_meta, "current_step", "Processing..."), res.url,
                    res.operation_name, -1, -1)

\* mcp_endpoints.py _read_job_resource(): resources/read of job://{job_id}
read_job_resource(known) ==
    IF ~known
    THEN Answer("resource", FALSE, "not_found", -1, "-", "-", "-", -1, -1)
    ELSE LET res == IF job_status = "finished" THEN result ELSE NoResult
         IN  Answer("resource", TRUE, job_status, Get(stored_meta, "progress", 0),
                    Get(stored_meta, "current_step", "Processing..."), res.url,
                    res.operation_name, -1, Get(stored_meta, "total_steps", 1))

\* main.py query_operation_status(): GET /operation/{operation_name} asks the
\* vendor and fetches no job.
query_operation_status(poll) ==
    LET status == IF poll = "raises" THEN "error"
                  ELSE IF poll = "done_error" THEN "failed"
                  ELSE IF poll = "not_done" THEN "running" ELSE "completed"
        url == IF poll = "done_uri" THEN resolve_gcs_url(GcsUri)
               ELSE IF poll = "done_pred" THEN resolve_gcs_url(ExternalUrl)
               ELSE "-"
    IN  Answer("operation", FALSE, status, -1, "-", url, "-", -1, -1)

\* A status query that stores the finished video into the job it reads.
HttpCheck_reconciles ==
    /\ \E known \in BOOLEAN, poll \in PollOutcomes :
         /\ query' = check(known, poll)
         /\ result' = IF known /\ job_status = "finished" /\ result.type = "submitted"
                          /\ poll = "done_uri"
                       THEN [result EXCEPT !.type = "url", !.url = GcsUri]
                       ELSE result
    /\ UNCHANGED <<kind, pc, meta, stored_meta, job_status, published, exc,
                   vendor, locals>>
    /\ UNCHANGED <<protoVars, notifyVars, restVars>>

\* A client asks GET /mcp/{job_id}, for this job or for an unknown id.
HttpCheck ==
    /\ \E known \in BOOLEAN, poll \in PollOutcomes : query' = check(known, poll)
    /\ UNCHANGED <<kind, pc, meta, stored_meta, job_status, result, published, exc,
                   vendor, locals>>
    /\ UNCHANGED <<protoVars, notifyVars, restVars>>

\* A client connects to /ws/{job_id}, for this job or for an unknown id.
WsConnect ==
    /\ \E known \in BOOLEAN : query' = send_current_status(known)
    /\ UNCHANGED <<kind, pc, meta, stored_meta, job_status, result, published, exc,
                   vendor, locals>>
    /\ UNCHANGED <<protoVars, notifyVars, restVars>>

\* A client calls the check_job_status tool, for this job or for an unknown id.
ToolCheckJobStatus ==
    /\ \E known \in BOOLEAN : query' = check_job_status(known)
    /\ UNCHANGED <<kind, pc, meta, stored_meta, job_status, result, published, exc,
                   vendor, locals>>
    /\ UNCHANGED <<protoVars, notifyVars, restVars>>

\* A client reads the resource job://{job_id}, for this job or for an unknown id.
ResourcesRead ==
    /\ \E known \in BOOLEAN : query' = read_job_resource(known)
    /\ UNCHANGED <<kind, pc, meta, stored_meta, job_status, result, published, exc,
                   vendor, locals>>
    /\ UNCHANGED <<protoVars, notifyVars, restVars>>

\* A client asks GET /operation/{operation_name}.
OperationStatus ==
    /\ \E poll \in PollOutcomes : query' = query_operation_status(poll)
    /\ UNCHANGED <<kind, pc, meta, stored_meta, job_status, result, published, exc,
                   vendor, locals>>
    /\ UNCHANGED <<protoVars, notifyVars, restVars>>

\* ---- wait_for_completion: GET /mcp/{job_id}/wait ------------------------------
MaxSleeps == 2     \* poll intervals that fit into max_wait_time

\* The statuses on which the loop returns at once.
WaitReturns_only_ended(status) == status \in {"finished", "failed"}

WaitReturns(status) == status \in {"finished", "failed", "not_found"}

\* A client calls the long-poll endpoint, for this job or for an unknown id.
WaitStart ==
    /\ waiter.state = "idle"
    /\ \E known \in BOOLEAN :
         waiter' = [state |-> "polling", known |-> known, sleeps |-> 0, answer |-> NoQuery]
    /\ UNCHANGED <<protoVars, jobVars, notifyVars, created, script, resolution, sideVars>>

\* A loop that returns on an ended job only, whatever the time.
WaitPoll_ignores_ceiling ==
    /\ waiter.state = "polling"
    /\ \E poll \in PollOutcomes :
         LET response == check(waiter.known, poll)
         IN  waiter' = IF WaitReturns(response.status)
                       THEN [waiter EXCEPT !.state = "returned", !.answer = response]
                       ELSE [waiter EXCEPT !.sleeps = IF @ < MaxSleeps THEN @ + 1 ELSE @]
    /\ UNCHANGED <<protoVars, jobVars, notifyVars, created, script, resolution, sideVars>>

\* One pass of the loop: check(job_id), then return or sleep; when
\* max_wait_time is over, the answer is check(job_id) whatever it says.
WaitPoll ==
    /\ waiter.state = "polling"
    /\ \E poll \in PollOutcomes :
         LET response == check(waiter.known, poll)
         IN  waiter' = IF waiter.sleeps >= MaxSleeps \/ WaitReturns(response.status)
                       THEN [waiter EXCEPT !.state = "returned", !.answer = response]
                       ELSE [waiter EXCEPT !.sleeps = @ + 1]
    /\ UNCHANGED <<protoVars, jobVars, notifyVars, created, script, resolution, sideVars>>

\* ---- specifications --------------------------------------------------------
AudioFormats == {"mp3", "m4a"}

JobInit ==
    /\ kind \in {"video", "audio"}
    /\ pc = "queued"
    /\ meta \in InitialMetas
    /\ stored_meta = meta
    /\ job_status = "queued"
    /\ result = NoResult
    /\ published = <<>>
    /\ exc = "-"
    /\ vendor = "-"
    /\ locals \in IF kind = "video" THEN {NoLocals}
                  ELSE {[NoLocals EXCEPT !.generate_thumbnail = t, !.audio_format = f] :
                          t \in BOOLEAN, f \in AudioFormats}
    /\ query = NoQuery

\* No job: the protocol specification leaves the worker out.
JobIdle ==
    /\ kind = "video"
    /\ pc = "idle"
    /\ meta = <<>>
    /\ stored_meta = <<>>
    /\ job_status = "queued"
    /\ result = NoResult
    /\ published = <<>>
    /\ exc = "-"
    /\ vendor = "-"
    /\ locals = NoLocals
    /\ query = NoQuery

JobNext ==
    \/ Claim
    \/ VideoStep1 \/ VideoAuth \/ VideoStep2 \/ VideoSubmit \/ VideoCheckMeta
    \/ VideoImmediateCheck \/ VideoStoreInfo \/ VideoMarkComplete \/ VideoNotifyComplete
    \/ VideoReturn \/ VideoMarkRunning \/ VideoNotifyRunning \/ VideoReturnSubmitted
    \/ AudioSetup \/ AudioStep1 \/ AudioScript \/ AudioStep2 \/ AudioVoice \/ AudioStep3
    \/ AudioTts \/ AudioConvert \/ AudioStepThumb \/ AudioThumb \/ AudioStepUpload
    \/ AudioUpload \/ AudioFinal \/ AudioNotify \/ AudioReturn
    \/ ExceptScrub \/ ExceptNotify \/ ExceptRaise
    \/ HttpCheck \/ WsConnect \/ WaitStart \/ WaitPoll

\* The worker running one job while a client long-polls; the handler's thread
\* keeps running, so a pass of the loop that can be taken is taken.
WaitNext ==
    \/ Claim
    \/ VideoStep1 \/ VideoAuth \/ VideoStep2 \/ VideoSubmit \/ VideoCheckMeta
    \/ VideoImmediateCheck \/ VideoStoreInfo \/ VideoMarkComplete \/ VideoNotifyComplete
    \/ VideoReturn \/ VideoMarkRunning \/ VideoNotifyRunning \/ VideoReturnSubmitted
    \/ AudioSetup \/ AudioStep1 \/ AudioScript \/ AudioStep2 \/ AudioVoice \/ AudioStep3
    \/ AudioTts \/ AudioConvert \/ AudioStepThumb \/ AudioThumb \/ AudioStepUpload
    \/ AudioUpload \/ AudioFinal \/ AudioNotify \/ AudioReturn
    \/ ExceptScrub \/ ExceptNotify \/ ExceptRaise
    \/ WaitStart \/ WaitPoll

\* The protocol session and the transports.
\* No socket, no stream, nothing handled by the listener.
NotifyIdle ==
    /\ listener_pos = 0
    /\ ws = [state |-> "none", since |-> 0, inbox |-> <<>>]
    /\ stream = [state |-> "none", has_job |-> FALSE, since |-> 0,
                 queue |-> <<>>, emitted |-> <<>>]

\* No create-job call has been handled.
NoParameters == [present |-> FALSE, durationSeconds |-> 8, sampleCount |-> 1,
                 aspectRatio |-> "16:9", model |-> "veo-3.0-generate-preview"]
NoCreate == [creds_valid |-> FALSE, code |-> 0, enqueued |-> FALSE, via |-> "-",
             outcome |-> "-", mode |-> "-", prompt |-> FALSE,
             parameters |-> NoParameters]
NoWaiter == [state |-> "idle", known |-> FALSE, sleeps |-> 0, answer |-> NoQuery]
NoScript == [out |-> <<>>, state |-> "none", limit |-> 0, sentences |-> <<>>,
             closed |-> FALSE, out_closed |-> FALSE]
NoResolution == [url |-> <<>>, via |-> "-", results |-> <<>>, outcomes |-> <<>>,
                 again |-> <<>>]
NoHub == [pc |-> "idle", connections |-> {}, has_key |-> FALSE, open |-> {},
          handler |-> <<>>, todo |-> {}, copied |-> {}, sent |-> {}, broken |-> {},
          raised |-> FALSE]
NoListener == [pc |-> "not_started", pubsub |-> FALSE, redis |-> FALSE,
               cancel_requested |-> FALSE, handled |-> 0, skipped |-> 0,
               cause |-> "-", task |-> "none", shutdown |-> "idle"]
NoSse == [registered |-> 0, streams |-> <<>>, latest |-> 0, queues |-> <<>>,
          dropped |-> 0]
NoExchange == [path |-> "-", parsed |-> FALSE, method |-> "-", request_id |-> 0,
               id |-> 0, kind |-> "none", code |-> 0]
SideIdle == hub = NoHub /\ listener = NoListener /\ sse = NoSse /\ exchange = NoExchange
RestIdle ==
    created = NoCreate /\ waiter = NoWaiter /\ script = NoScript
    /\ resolution = NoResolution /\ SideIdle

InitProto == ProtoInit /\ JobIdle /\ NotifyIdle /\ RestIdle
SpecProto == InitProto /\ [][ProtoNext]_vars

\* One job run by the worker, with clients querying its status.
InitJobs == ProtoInit /\ JobInit /\ NotifyIdle /\ RestIdle
SpecJobs == InitJobs /\ [][JobNext]_vars

\* The positions at which the worker publishes a progress or completion
\* notification.
NotifyPositions ==
    {"v_notify1", "v_notify2", "v_notify_check", "v_notify_complete",
     "v_notify_running", "a_notify1", "a_notify2", "a_notify3", "a_notify_thumb",
     "a_notify_upload", "a_notify"}

\* redis_client.publish raises in notify_progress or notify_completion: the
\* call stands in the pipeline's try block with nothing around it.
PublishRaises ==
    /\ pc \in NotifyPositions
    /\ Raise("redis publish failed")

\* One job run by the worker over a Redis whose publish may fail.
FaultNext == JobNext \/ PublishRaises
SpecFaults == InitJobs /\ [][FaultNext]_vars

\* The worker running one job while clients read it on every read path.
ReadNext == JobNext \/ ToolCheckJobStatus \/ ResourcesRead \/ OperationStatus
InitReads == InitJobs /\ meta = <<>>
SpecReads == InitReads /\ [][ReadNext]_vars

\* One job and one long-poll call.
SpecWait == InitJobs /\ [][WaitNext]_vars /\ WF_vars(WaitPoll)


(***************************************************************************)
(*        Part III: the delivery of the job's notifications                *)
(*        (one video job, one WebSocket, one SSE stream).                  *)
(*        Specifications: SpecSockets, SpecStreams.                        *)
(***************************************************************************)

MaxEvents == 2     \* events a caller may hand to the stream, and pings it may emit

TheJob == 1        \* the job's id in job_streams
TheClient == 1     \* the stream's client id in active_streams

\* The messages redis_listener has not handled yet (the job's pub/sub channel).
InFlight == SubSeq(published, listener_pos + 1, Len(published))

\* ---- WebSocketManager ------------------------------------------------------
\* send_current_status as the message the socket receives.
Replay(known) ==
    LET q == send_current_status(known)
    IN  Msg("replay", q.status, q.progress, q.current_step, q.url, "-")

\* connect: accept, add the socket to active_connections[job_id], replay.
connect(w, known) ==
    [state |-> "open", since |-> Len(published), inbox |-> <<Replay(known)>>]

\* disconnect
disconnect(w) == [w EXCEPT !.state = "closed"]

\* broadcast_to_job: send to every socket of the job; a socket whose send
\* fails is disconnected.
broadcast_to_job_drops(w, message, ok) == w

broadcast_to_job(w, message, ok) ==
    IF w.state # "open" THEN w
    ELSE IF ok THEN [w EXCEPT !.inbox = Append(@, message)]
    ELSE disconnect(w)

\* ---- StreamableHttpTransport: the stream's queue -----------------------------
\* notify_job_progress / notify_job_complete / notify_job_error(job_id, ...):
\* the queue of the stream tied to the job, after the call.
notify_job(type, st) ==
    IF <<TheJob, TheClient>> \notin job_streams THEN st
    ELSE IF TheClient \notin active_streams THEN st
    ELSE [st EXCEPT !.queue = Append(@, Msg(type, "-", 0, "-", "-", "-"))]

\* is_complete of the generator's loop
is_complete_never(message) == FALSE

is_complete(message) == message.type \in {"job_complete", "job_error"}

\* The finally clause of the generator.
Cleanup ==
    /\ active_streams' = active_streams \ {TheClient}
    /\ job_streams' = {p \in job_streams : ~(p[1] = TheJob /\ p[2] = TheClient)}

\* ---- actions ---------------------------------------------------------------
\* create_task, or a tool call that is not streamed, enqueues the job.
Enqueue ==
    /\ pc = "new"
    /\ pc' = "queued"
    /\ job_status' = "queued"
    /\ UNCHANGED <<kind, meta, stored_meta, result, published, exc, vendor, locals, query>>
    /\ UNCHANGED <<protoVars, notifyVars, restVars>>

\* A streamed tools/call: the generator registers its queue and routes the
\* call to the tool, which enqueues the job or answers with an error.
EnqueueStreamed ==
    /\ pc = "new"
    /\ stream.state = "none"
    /\ \E enqueued \in BOOLEAN :
         /\ pc' = IF enqueued THEN "queued" ELSE pc
         /\ job_status' = IF enqueued THEN "queued" ELSE job_status
         /\ stream' = [stream EXCEPT !.state = "started", !.has_job = enqueued]
    /\ active_streams' = active_streams \cup {TheClient}
    /\ UNCHANGED <<kind, meta, stored_meta, result, published, exc, vendor, locals, query>>
    /\ UNCHANGED <<initialized, client_info, last, resp, effect, queue_len, job_streams>>
    /\ UNCHANGED <<listener_pos, ws, restVars>>

\* The generator yields the tool's response and, when the response names a
\* job, ties the job to the stream.
StreamFirstEvent ==
    /\ stream.state = "started"
    /\ stream' = [stream EXCEPT !.state = "streaming",
                                !.since = Len(published),
                                !.emitted = <<Msg("initial",
                                                  IF stream.has_job THEN "result" ELSE "error",
                                                  0, "-", "-", "-")>>]
    /\ job_streams' = IF stream.has_job
                      THEN job_streams \cup {<<TheJob, TheClient>>}
                      ELSE job_streams
    /\ UNCHANGED <<initialized, client_info, last, resp, effect, queue_len, active_streams>>
    /\ UNCHANGED <<jobVars, listener_pos, ws, restVars>>

\* Somebody calls notify_job_progress, notify_job_complete or notify_job_error
\* for the job.
StreamNotify ==
    /\ stream.state \in {"started", "streaming"}
    /\ Len(stream.queue) + Len(stream.emitted) <= MaxEvents
    /\ \E type \in {"job_progress", "job_complete", "job_error"} :
         stream' = notify_job(type, stream)
    /\ UNCHANGED <<protoVars, jobVars, listener_pos, ws, restVars>>

\* The generator takes a message from its queue and yields it; a terminal one
\* ends the loop and the finally clause runs.
StreamEmit ==
    /\ stream.state = "streaming"
    /\ stream.queue # <<>>
    /\ LET message == Head(stream.queue)
       IN  IF is_complete(message)
           THEN /\ stream' = [stream EXCEPT !.state = "closed", !.queue = Tail(@),
                                            !.emitted = Append(@, message)]
                /\ Cleanup
           ELSE /\ stream' = [stream EXCEPT !.queue = Tail(@),
                                            !.emitted = Append(@, message)]
                /\ UNCHANGED <<active_streams, job_streams>>
    /\ UNCHANGED <<initialized, client_info, last, resp, effect, queue_len>>
    /\ UNCHANGED <<jobVars, listener_pos, ws, restVars>>

\* Thirty seconds without a message: a keep-alive ping.
StreamPing ==
    /\ stream.state = "streaming"
    /\ stream.queue = <<>>
    /\ Len(stream.emitted) <= MaxEvents
    /\ stream' = [stream EXCEPT !.emitted = Append(@, Msg("ping", "-", 0, "-", "-", "-"))]
    /\ UNCHANGED <<protoVars, jobVars, listener_pos, ws, restVars>>

\* The client goes away: CancelledError, then the finally clause.
StreamCancel ==
    /\ stream.state \in {"started", "streaming"}
    /\ stream' = [stream EXCEPT !.state = "closed"]
    /\ Cleanup
    /\ UNCHANGED <<initialized, client_info, last, resp, effect, queue_len>>
    /\ UNCHANGED <<jobVars, listener_pos, ws, restVars>>

\* An exception in the loop: an error event, then the finally clause.
StreamError ==
    /\ stream.state = "streaming"
    /\ stream' = [stream EXCEPT !.state = "closed",
                                !.emitted = Append(@, Msg("error", "-", 0, "-", "-", "-"))]
    /\ Cleanup
    /\ UNCHANGED <<initialized, client_info, last, resp, effect, queue_len>>
    /\ UNCHANGED <<jobVars, listener_pos, ws, restVars>>

\* websocket_endpoint: a client connects to /ws/{job_id}.
Connect ==
    /\ ws.state = "none"
    /\ ws' = connect(ws, pc # "new")
    /\ UNCHANGED <<protoVars, jobVars, listener_pos, stream, restVars>>

\* websocket_endpoint: the client disconnects.
Disconnect ==
    /\ ws.state = "open"
    /\ ws' = disconnect(ws)
    /\ UNCHANGED <<protoVars, jobVars, listener_pos, stream, restVars>>

\* redis_listener handles the next message of the job's channel: it
\* broadcasts it to the job's sockets.
RedisListener ==
    /\ listener_pos < Len(published)
    /\ listener_pos' = listener_pos + 1
    /\ \E ok \in BOOLEAN :
         ws' = broadcast_to_job(ws, published[listener_pos + 1], ok)
    /\ UNCHANGED <<protoVars, jobVars, stream, restVars>>

\* A video job that is not enqueued yet, with the metadata the enqueuers of
\* the repository give it (none).
NotifyJobInit ==
    /\ kind = "video"
    /\ pc = "new"
    /\ meta = <<>>
    /\ stored_meta = meta
    /\ job_status = "none"
    /\ result = NoResult
    /\ published = <<>>
    /\ exc = "-"
    /\ vendor = "-"
    /\ locals = NoLocals
    /\ query = NoQuery

InitNotify == ProtoInit /\ NotifyJobInit /\ NotifyIdle /\ RestIdle

\* The worker running the video job.
VideoJobNext ==
    \/ Claim
    \/ VideoStep1 \/ VideoAuth \/ VideoStep2 \/ VideoSubmit \/ VideoCheckMeta
    \/ VideoImmediateCheck \/ VideoStoreInfo \/ VideoMarkComplete \/ VideoNotifyComplete
    \/ VideoReturn \/ VideoMarkRunning \/ VideoNotifyRunning \/ VideoReturnSubmitted
    \/ ExceptScrub \/ ExceptNotify \/ ExceptRaise

SocketNext ==
    \/ Enqueue \/ VideoJobNext
    \/ Connect \/ Disconnect \/ RedisListener

\* One video job, the listener and one WebSocket.
SpecSockets == InitNotify /\ [][SocketNext]_vars

StreamNext ==
    \/ EnqueueStreamed \/ VideoJobNext \/ RedisListener
    \/ StreamFirstEvent \/ StreamNotify \/ StreamEmit \/ StreamPing
    \/ StreamCancel \/ StreamError

\* One video job started by a streamed tools/call, the listener and the stream.
SpecStreams == InitNotify /\ [][StreamNext]_vars

(***************************************************************************)
(*        Part IV: creating a job (REST create_task and the                *)
(*        generate_video tool).  Specification: SpecRest.                  *)
(***************************************************************************)

SUPPORTED_VIDEO_MODELS ==
    {"veo-3.0-generate-preview", "veo-2.0-generate-preview", "veo-1.0-generate-preview",
     "imagen-3.0-generate-001", "imagen-3.0-fast-generate-001"}
valid_ratios == {"16:9", "9:16", "1:1", "4:3", "3:4"}

\* The values a request may carry.
Durations == {-1, 0, 1, 60, 61}
SampleCounts == {0, 1, 4, 5}
AspectRatios == {"16:9", "2:1", ""}
Models == {"veo-3.0-generate-preview", "veo-9", ""}

Parameters(d, n, a, m) ==
    [present |-> TRUE, durationSeconds |-> d, sampleCount |-> n,
     aspectRatio |-> a, model |-> m]

\* validate_video_parameters: each field is checked only when it is truthy
\* (an integer other than 0, a string other than "").
validate_video_parameters(parameters) ==
    IF ~parameters.present THEN TRUE
    ELSE IF parameters.model # "" /\ parameters.model \notin SUPPORTED_VIDEO_MODELS
    THEN FALSE
    ELSE IF parameters.durationSeconds # 0
            /\ (parameters.durationSeconds < 1 \/ parameters.durationSeconds > 60)
    THEN FALSE
    ELSE IF parameters.aspectRatio # "" /\ parameters.aspectRatio \notin valid_ratios
    THEN FALSE
    ELSE IF parameters.sampleCount # 0
            /\ (parameters.sampleCount < 1 \/ parameters.sampleCount > 4)
    THEN FALSE
    ELSE TRUE

Created(via, mode, prompt, creds_valid, parameters, outcome, code, enqueued) ==
    [creds_valid |-> creds_valid, code |-> code, enqueued |-> enqueued, via |-> via,
     outcome |-> outcome, mode |-> mode, prompt |-> prompt, parameters |-> parameters]

\* create_task: POST /mcp.  In audio mode the arguments of enqueue_call read
\* req.provider, a field MCPRequest does not have.
create_task(mode, creds_valid, parameters) ==
    IF ~creds_valid
    THEN Created("rest", mode, TRUE, creds_valid, parameters, "http_error", 400, FALSE)
    ELSE IF mode = "video" /\ ~validate_video_parameters(parameters)
    THEN Created("rest", mode, TRUE, creds_valid, parameters, "http_error", 400, FALSE)
    ELSE IF mode = "video"
    THEN Created("rest", mode, TRUE, creds_valid, parameters, "queued", 200, TRUE)
    ELSE Created("rest", mode, TRUE, creds_valid, parameters, "http_error", 500, FALSE)

\* _handle_generate_video with its arguments spelled out: duration_seconds,
\* aspect_ratio and model go into the parameters, sampleCount keeps its default.
generate_video(prompt, creds_valid, parameters) ==
    IF ~prompt
    THEN Created("tool", "video", prompt, creds_valid, parameters,
                 "rpc_error", INVALID_PARAMS, FALSE)
    ELSE IF ~creds_valid
    THEN Created("tool", "video", prompt, creds_valid, parameters,
                 "rpc_error", TOOL_EXECUTION_ERROR, FALSE)
    ELSE IF ~validate_video_parameters(parameters)
    THEN Created("tool", "video", prompt, creds_valid, parameters,
                 "rpc_error", TOOL_EXECUTION_ERROR, FALSE)
    ELSE Created("tool", "video", prompt, creds_valid, parameters, "rpc_result", 0, TRUE)

\* The state after a create-job call with outcome c.
Submit(c) ==
    /\ c.enqueued => queue_len < MaxJobs
    /\ created' = c
    /\ queue_len' = IF c.enqueued THEN queue_len + 1 ELSE queue_len
    /\ UNCHANGED <<initialized, client_info, last, resp, effect, active_streams,
                   job_streams>>
    /\ UNCHANGED <<jobVars, notifyVars, waiter, script, resolution, sideVars>>

\* POST /mcp
CreateTask ==
    \E mode \in {"video", "audio"}, creds_valid \in BOOLEAN :
      \/ Submit(create_task(mode, creds_valid, NoParameters))
      \/ \E d \in Durations, n \in SampleCounts, a \in AspectRatios, m \in Models :
           Submit(create_task(mode, creds_valid, Parameters(d, n, a, m)))

\* tools/call of generate_video
GenerateVideoTool ==
    \E prompt \in BOOLEAN, creds_valid \in BOOLEAN,
       d \in Durations, a \in AspectRatios, m \in Models :
      Submit(generate_video(prompt, creds_valid, Parameters(d, 1, a, m)))

RestNext == CreateTask \/ GenerateVideoTool

\* The two ways to create a job, on an empty queue.
SpecRest == InitProto /\ [][RestNext]_vars

(***************************************************************************)
(*                    Part V: the script of an audio job                   *)
(*                                                                         *)
(* make_script_openai and make_script_gemini end with the same lines:      *)
(* the model's answer is sanitized, its duration is estimated from its     *)
(* word count, and it is truncated when the estimate exceeds               *)
(* violation_threshold.  A sanitized script is the sequence of the word    *)
(* counts of its sentences (the pieces re.split(r'(?<=[.!?])\s+') gives:   *)
(* every piece but the last ends with '.', '!' or '?'), and `closed` says  *)
(* whether the last piece does too.  The limits are ones for which the     *)
(* double arithmetic of the code is exact on the scripts below.            *)
(***************************************************************************)

MaxSentences == 3
words_per_minute == 150
Limits == {10, 30, 60}
SentenceWords(L) == {L, 2 * L, 3 * L, 2 * L + 3, 5 * L + 3}
Scripts(L) == UNION {[1..n -> SentenceWords(L)] : n \in 1..MaxSentences}

RECURSIVE word_count(_)
word_count(sentences) ==
    IF sentences = <<>> THEN 0 ELSE Head(sentences) + word_count(Tail(sentences))

\* estimated_duration > seconds, for word_count / words_per_minute * 60
estimate_exceeds(sentences, seconds) ==
    word_count(sentences) * 60 > seconds * words_per_minute

violation_threshold(L) == IF L * 2 >= L + 30 THEN L * 2 ELSE L + 30

max_words(L) == (L * words_per_minute) \div 60

\* the loop of truncate_script_to_duration: it stops at the first sentence
\* that does not fit
RECURSIVE truncated_sentences(_, _, _)
truncated_sentences(sentences, count, limit) ==
    IF sentences = <<>> THEN <<>>
    ELSE IF count + Head(sentences) > limit THEN <<>>
    ELSE <<Head(sentences)>>
            \o truncated_sentences(Tail(sentences), count + Head(sentences), limit)

\* the joined text ends with punctuation, its own or the appended '.',
\* unless it is empty
truncate_script_to_duration(sentences, L) ==
    LET kept == truncated_sentences(sentences, 0, max_words(L))
    IN  [out |-> kept, out_closed |-> kept # <<>>]

ScriptInit ==
    \E L \in Limits, closed \in BOOLEAN : \E sentences \in Scripts(L) :
        script = [out |-> <<>>, state |-> "sanitized", limit |-> L,
                  sentences |-> sentences, closed |-> closed, out_closed |-> FALSE]

MakeScript ==
    /\ script.state = "sanitized"
    /\ LET cut == truncate_script_to_duration(script.sentences, script.limit)
       IN  script' =
             IF estimate_exceeds(script.sentences, violation_threshold(script.limit))
             THEN [script EXCEPT !.state = "returned", !.out = cut.out,
                                 !.out_closed = cut.out_closed]
             ELSE [script EXCEPT !.state = "returned", !.out = script.sentences,
                                 !.out_closed = script.closed]
    /\ UNCHANGED <<protoVars, jobVars, notifyVars, created, waiter, resolution, sideVars>>

ScriptNext == MakeScript
InitScript ==
    ProtoInit /\ JobIdle /\ NotifyIdle /\ created = NoCreate /\ waiter = NoWaiter
    /\ resolution = NoResolution /\ SideIdle /\ ScriptInit
SpecScript == InitScript /\ [][ScriptNext]_vars

\* ---- properties of the script (under SpecScript) ----------------------------

IsPrefix(p, q) == Len(p) <= Len(q) /\ SubSeq(q, 1, Len(p)) = p

\* C27: for every limit L, a sanitized script estimated at exactly 2L seconds
\* is returned untruncated, and one estimated at 2L+1 seconds or more is
\* returned cut to whole sentences that fit within L, ending with '.', '!'
\* or '?'.
C27_TruncationBoundary ==
    script.state = "returned" =>
        LET words == word_count(script.sentences)
            L == script.limit
        IN  /\ words * 60 = 2 * L * words_per_minute =>
                script.out = script.sentences /\ script.out_closed = script.closed
            /\ words * 60 >= (2 * L + 1) * words_per_minute =>
                /\ IsPrefix(script.out, script.sentences)
                /\ script.out # script.sentences
                /\ word_count(script.out) * 60 <= L * words_per_minute
                /\ script.out_closed

(***************************************************************************)
(*                        Part VI: URL resolution                          *)
(*                                                                         *)
(* A URL is the sequence of its pieces, so that startswith and replace     *)
(* work on it as they do on the string.  The blob's public_url is the      *)
(* storage client's format for the blob's name, the one the code writes    *)
(* out in its fallbacks.                                                    *)
(***************************************************************************)

MaxResolves == 2
GsPrefix == <<"gs://", "bucket/">>
PublicPrefix == <<"https://storage.googleapis.com/", "bucket/">>
Urls ==
    { <<>>,
      GsPrefix \o <<"videos/", "a.mp4">>,
      <<"gs://", "other/", "a.mp4">>,
      PublicPrefix \o <<"videos/", "a.mp4">>,
      PublicPrefix \o <<"videos/">> \o PublicPrefix \o <<"a.mp4">>,
      <<"https://storage.googleapis.com/", "other/", "a.mp4">>,
      <<"https://example.com/", "a.mp4">> }

\* what blob.make_public() does: it succeeds, it is refused by a bucket with
\* uniform bucket-level access, or it fails otherwise
MakePublicOutcomes == {"public", "uniform bucket-level access", "error"}

startswith(url, prefix) ==
    Len(url) >= Len(prefix) /\ SubSeq(url, 1, Len(prefix)) = prefix

\* str.replace(old, ""): every occurrence goes
RECURSIVE replace(_, _)
replace(url, old) ==
    IF url = <<>> THEN <<>>
    ELSE IF startswith(url, old)
    THEN replace(SubSeq(url, Len(old) + 1, Len(url)), old)
    ELSE <<Head(url)>> \o replace(Tail(url), old)

public_url(blob_name) == PublicPrefix \o blob_name

make_blob_public_safe(blob_name, outcome) ==
    IF outcome = "public" THEN [raised |-> FALSE, url |-> public_url(blob_name)]
    ELSE IF outcome = "uniform bucket-level access"
    THEN [raised |-> FALSE, url |-> PublicPrefix \o blob_name]
    ELSE [raised |-> TRUE, url |-> <<>>]

\* main.py resolve_gcs_url
resolve_gcs_url_main(url, outcome) ==
    IF url = <<>> THEN url
    ELSE IF startswith(url, <<"gs://">>)
    THEN LET blob_path == replace(url, GsPrefix)
             made == make_blob_public_safe(blob_path, outcome)
         IN  IF made.raised THEN PublicPrefix \o blob_path ELSE made.url
    ELSE IF startswith(url, PublicPrefix)
    THEN LET blob_path == replace(url, PublicPrefix)
             made == make_blob_public_safe(blob_path, outcome)
         IN  IF made.raised THEN url ELSE made.url
    ELSE url

\* websocket_manager.py resolve_gcs_url, local to send_current_status: it
\* touches no blob
resolve_gcs_url_ws(url) ==
    IF url = <<>> THEN url
    ELSE IF startswith(url, <<"gs://">>)
    THEN PublicPrefix \o replace(url, GsPrefix)
    ELSE IF startswith(url, PublicPrefix) THEN url
    ELSE url

ResolveBy(via, url, outcome) ==
    IF via = "main" THEN resolve_gcs_url_main(url, outcome)
    ELSE resolve_gcs_url_ws(url)

OutcomesFor(via) == IF via = "main" THEN MakePublicOutcomes ELSE {"-"}

ResolutionInit ==
    \E via \in {"main", "ws"}, url \in Urls :
        resolution = [url |-> url, via |-> via, results |-> <<>>,
                      outcomes |-> <<>>, again |-> <<>>]

\* resolve the URL (again)
Resolve ==
    /\ Len(resolution.results) < MaxResolves
    /\ resolution.again = <<>>
    /\ \E outcome \in OutcomesFor(resolution.via) :
        resolution' =
            [resolution EXCEPT
               !.results = Append(@, ResolveBy(resolution.via, resolution.url,
                                               outcome)),
               !.outcomes = Append(@, outcome)]
    /\ UNCHANGED <<protoVars, jobVars, notifyVars, created, waiter, script, sideVars>>

\* resolve what the last resolution returned
ResolveResolved ==
    /\ resolution.results # <<>>
    /\ resolution.again = <<>>
    /\ \E outcome \in OutcomesFor(resolution.via) :
        resolution' =
            [resolution EXCEPT
               !.again = <<ResolveBy(resolution.via,
                                     resolution.results[Len(resolution.results)],
                                     outcome)>>,
               !.outcomes = Append(@, outcome)]
    /\ UNCHANGED <<protoVars, jobVars, notifyVars, created, waiter, script, sideVars>>

ResolutionNext == Resolve \/ ResolveResolved
InitResolution ==
    ProtoInit /\ JobIdle /\ NotifyIdle /\ created = NoCreate /\ waiter = NoWaiter
    /\ script = NoScript /\ SideIdle /\ ResolutionInit
SpecResolution == InitResolution /\ [][ResolutionNext]_vars

\* ---- properties of URL resolution (under SpecResolution) --------------------

\* C28: resolving is idempotent: what resolving a URL returned resolves to
\* itself; an empty, external or already-public URL is returned unchanged; and
\* two resolutions of one URL return the same URL, whether granting public
\* access succeeded or failed.
C28_ResolutionIdempotent ==
    LET results == resolution.results IN
    /\ \A i \in DOMAIN resolution.again :
           resolution.again[i] = results[Len(results)]
    /\ ~startswith(resolution.url, <<"gs://">>) =>
           \A i \in DOMAIN results : results[i] = resolution.url
    /\ \A i, j \in DOMAIN results : results[i] = results[j]

(***************************************************************************)
(*                  Part VII: the registry of WebSockets                   *)
(*                                                                         *)
(* active_connections[job_id] for one job and several sockets.  Each       *)
(* socket has its websocket_endpoint handler; one broadcast_to_job runs    *)
(* beside them and gives way at every await, that is at every send.        *)
(***************************************************************************)

MaxSockets == 2
Sockets == 1..MaxSockets

\* WebSocketManager.connect, its registration
active_connections_add(h, websocket) ==
    [h EXCEPT !.connections = @ \cup {websocket}, !.has_key = TRUE]

\* A disconnect that takes the job's entry for granted.
active_connections_discard_unguarded(h, websocket) ==
    IF ~h.has_key THEN [h EXCEPT !.raised = TRUE]
    ELSE [h EXCEPT !.connections = @ \ {websocket},
                   !.has_key = (h.connections \ {websocket}) # {}]

\* WebSocketManager.disconnect
active_connections_discard(h, websocket) ==
    IF ~h.has_key THEN h
    ELSE [h EXCEPT !.connections = @ \ {websocket},
                   !.has_key = (h.connections \ {websocket}) # {}]

\* the clean-up loop of broadcast_to_job
RECURSIVE disconnect_broken(_, _)
disconnect_broken(h, broken_connections) ==
    IF broken_connections = {} THEN h
    ELSE LET websocket == CHOOSE w \in broken_connections : TRUE
         IN  disconnect_broken(active_connections_discard(h, websocket),
                               broken_connections \ {websocket})

\* Whether a send on the socket succeeds: on an open socket it does; on one
\* whose client is gone it raises, or the loss is not noticed yet.
SendOutcomes(h, websocket) == IF websocket \in h.open THEN {TRUE} ELSE {TRUE, FALSE}

HubStays ==
    UNCHANGED <<protoVars, jobVars, notifyVars, created, waiter, script, resolution,
                listener, sse, exchange>>

\* websocket_endpoint up to the registration: manager.connect accepts the
\* socket and adds it
WsAccept(websocket) ==
    /\ hub.handler[websocket] = "new"
    /\ hub' = IF websocket \in hub.open
              THEN [active_connections_add(hub, websocket)
                        EXCEPT !.handler[websocket] = "replaying"]
              ELSE [hub EXCEPT !.handler[websocket] = "ended"]
    /\ HubStays

\* manager.connect goes on with send_current_status; websocket_endpoint awaits
\* it before its try block, so what send_current_status raises ends the handler
WsReplay(websocket) ==
    /\ hub.handler[websocket] = "replaying"
    /\ \E ok \in SendOutcomes(hub, websocket) :
         hub' = [hub EXCEPT !.handler[websocket] = IF ok THEN "listening" ELSE "ended"]
    /\ HubStays

\* the loop of websocket_endpoint ends on a receive or ping-send error; its
\* finally clause disconnects
WsLoopEnds(websocket) ==
    /\ hub.handler[websocket] = "listening"
    /\ websocket \notin hub.open
    /\ hub' = [active_connections_discard(hub, websocket)
                   EXCEPT !.handler[websocket] = "ended"]
    /\ HubStays

\* the client goes away
ClientGone(websocket) ==
    /\ websocket \in hub.open
    /\ hub' = [hub EXCEPT !.open = @ \ {websocket}]
    /\ HubStays

\* broadcast_to_job up to the copy of the set
BroadcastStart ==
    /\ hub.pc = "idle"
    /\ hub' = IF ~hub.has_key THEN [hub EXCEPT !.pc = "done"]
              ELSE [hub EXCEPT !.pc = "sending", !.todo = hub.connections,
                               !.copied = hub.connections]
    /\ HubStays

\* one pass of the loop over the copy
BroadcastSend ==
    /\ hub.pc = "sending"
    /\ \E websocket \in hub.todo : \E ok \in SendOutcomes(hub, websocket) :
         hub' = [hub EXCEPT !.todo = @ \ {websocket},
                            !.sent = IF ok THEN @ \cup {websocket} ELSE @,
                            !.broken = IF ok THEN @ ELSE @ \cup {websocket}]
    /\ HubStays

BroadcastCleanup ==
    /\ hub.pc = "sending"
    /\ hub.todo = {}
    /\ hub' = [disconnect_broken(hub, hub.broken) EXCEPT !.pc = "done"]
    /\ HubStays

HubInit ==
    hub = [pc |-> "idle", connections |-> {}, has_key |-> FALSE, open |-> Sockets,
           handler |-> [w \in Sockets |-> "new"],
           todo |-> {}, copied |-> {}, sent |-> {}, broken |-> {}, raised |-> FALSE]

HubNext ==
    \/ \E websocket \in Sockets :
          WsAccept(websocket) \/ WsReplay(websocket) \/ WsLoopEnds(websocket)
          \/ ClientGone(websocket)
    \/ BroadcastStart \/ BroadcastSend \/ BroadcastCleanup
InitHub ==
    ProtoInit /\ JobIdle /\ NotifyIdle /\ created = NoCreate /\ waiter = NoWaiter
    /\ script = NoScript /\ resolution = NoResolution /\ listener = NoListener
    /\ sse = NoSse /\ exchange = NoExchange /\ HubInit
SpecHub == InitHub /\ [][HubNext]_vars

\* ---- properties of the registry (under SpecHub) -------------------------------

\* C33: broadcast_to_job sends to every socket registered for the job, whatever
\* happens to the others: a socket still open when the broadcast ends has
\* received the message, every socket whose send failed is out of the
\* registry, and the broadcast never raises.
C33_BroadcastReachesEverySocket ==
    /\ ~hub.raised
    /\ hub.pc = "done" =>
          /\ hub.sent \cup hub.broken = hub.copied
          /\ hub.sent \cap hub.broken = {}
          /\ (hub.copied \cap hub.open) \subseteq hub.sent
          /\ hub.broken \cap hub.connections = {}

\* A broadcast that ended after one send failed and another succeeded, the
\* registry emptied by then.
C33_OneFailedOneReceived ==
    /\ hub.pc = "done"
    /\ hub.broken # {}
    /\ hub.sent # {}
    /\ ~hub.has_key

\* C37: once the handler of a socket has terminated, for whatever reason, the
\* socket is not in active_connections, and the job id is not left mapped to
\* an empty set.
C37_EndedHandlerLeavesNoSocket ==
    /\ \A websocket \in Sockets :
          hub.handler[websocket] = "ended" => websocket \notin hub.connections
    /\ hub.has_key => hub.connections # {}

(***************************************************************************)
(*               Part VIII: the listener task and the shutdown             *)
(*                                                                         *)
(* redis_listener as a task: its position is the await it stands at.       *)
(* task.cancel() marks the task; the CancelledError is raised at the       *)
(* task's next (or current) await, wherever that is.                       *)
(***************************************************************************)

ListenerStays ==
    UNCHANGED <<protoVars, jobVars, notifyVars, created, waiter, script, resolution,
                hub, sse, exchange>>

SseStays ==
    UNCHANGED <<protoVars, jobVars, notifyVars, created, waiter, script, resolution,
                hub, listener, exchange>>

\* the finally clause is left: the task ends cancelled if the CancelledError
\* was re-raised, and returns otherwise
ListenerEnds(l) ==
    [l EXCEPT !.pc = "ended",
              !.task = IF l.cause = "cancelled" THEN "cancelled" ELSE "returned"]

\* startup_event: the listener is created as a task
Startup ==
    /\ listener.task = "none"
    /\ listener.shutdown = "idle"
    /\ listener' = [listener EXCEPT !.task = "pending"]
    /\ ListenerStays

\* the task's first step: from_url, pubsub(), and the await of psubscribe.  A
\* task cancelled before its first step never enters the function's body.
ListenerStart ==
    /\ listener.pc = "not_started"
    /\ listener.task = "pending"
    /\ listener' = IF listener.cancel_requested
                   THEN [listener EXCEPT !.pc = "ended", !.task = "cancelled",
                                         !.cancel_requested = FALSE]
                   ELSE [listener EXCEPT !.pc = "psubscribe", !.redis = TRUE,
                                         !.pubsub = TRUE]
    /\ ListenerStays

\* psubscribe returns, or raises into "except Exception"
ListenerSubscribe ==
    /\ listener.pc = "psubscribe"
    /\ ~listener.cancel_requested
    /\ \/ listener' = [listener EXCEPT !.pc = "listen"]
       \/ listener' = [listener EXCEPT !.pc = "close_pubsub", !.cause = "error"]
    /\ ListenerStays

\* pubsub.listen() yields a message and the listener awaits broadcast_to_job,
\* or listen() raises into "except Exception"
ListenerMessage ==
    /\ listener.pc = "listen"
    /\ ~listener.cancel_requested
    /\ \/ /\ listener.handled + listener.skipped < MaxEvents
          /\ listener' = [listener EXCEPT !.pc = "broadcast"]
       \/ listener' = [listener EXCEPT !.pc = "close_pubsub", !.cause = "error"]
    /\ ListenerStays

\* the message is broadcast, or handling it raises and the loop's own
\* "except Exception" skips it
ListenerBroadcast ==
    /\ listener.pc = "broadcast"
    /\ ~listener.cancel_requested
    /\ \/ listener' = [listener EXCEPT !.pc = "listen", !.handled = @ + 1]
       \/ listener' = [listener EXCEPT !.pc = "listen", !.skipped = @ + 1]
    /\ ListenerStays

\* The CancelledError is raised at the await the task stands at.  In the try
\* block it is re-raised through the finally clause; inside the finally
\* clause neither "except Exception" catches it, and the clause is left.
ListenerCancelled ==
    /\ listener.cancel_requested
    /\ listener.pc \in {"psubscribe", "listen", "broadcast", "close_pubsub", "close_redis"}
    /\ listener' =
         IF listener.pc \in {"psubscribe", "listen", "broadcast"}
         THEN [listener EXCEPT !.cancel_requested = FALSE, !.cause = "cancelled",
                               !.pc = "close_pubsub"]
         ELSE [ListenerEnds(listener) EXCEPT !.cancel_requested = FALSE,
                                             !.task = "cancelled"]
    /\ ListenerStays

\* finally: await pubsub.aclose(); an exception skips the rest of the try
\* block, redis.aclose() included
ListenerClosePubsub ==
    /\ listener.pc = "close_pubsub"
    /\ ~listener.cancel_requested
    /\ \/ listener' = [listener EXCEPT !.pc = "close_redis", !.pubsub = FALSE]
       \/ listener' = ListenerEnds(listener)
    /\ ListenerStays

\* finally: await redis.aclose()
ListenerCloseRedis ==
    /\ listener.pc = "close_redis"
    /\ ~listener.cancel_requested
    /\ \/ listener' = ListenerEnds([listener EXCEPT !.redis = FALSE])
       \/ listener' = ListenerEnds(listener)
    /\ ListenerStays

\* shutdown_event up to its await: without a task it does nothing; cancel()
\* on a task that is done does nothing
ShutdownCancels ==
    /\ listener.shutdown = "idle"
    /\ listener' = IF listener.task = "none"
                   THEN [listener EXCEPT !.shutdown = "done"]
                   ELSE [listener EXCEPT !.shutdown = "awaiting",
                                         !.cancel_requested = (listener.pc # "ended")]
    /\ ListenerStays

\* await redis_listener_task: CancelledError and Exception are both caught
shutdown_outcome(task) == "done"

ShutdownReturns ==
    /\ listener.shutdown = "awaiting"
    /\ listener.pc = "ended"
    /\ listener' = [listener EXCEPT !.shutdown = shutdown_outcome(listener.task)]
    /\ ListenerStays

ListenerInit == listener = NoListener

ListenerNext ==
    \/ Startup \/ ListenerStart \/ ListenerSubscribe \/ ListenerMessage \/ ListenerBroadcast
    \/ ListenerCancelled \/ ListenerClosePubsub \/ ListenerCloseRedis
    \/ ShutdownCancels \/ ShutdownReturns
InitShutdown ==
    ProtoInit /\ JobIdle /\ NotifyIdle /\ created = NoCreate /\ waiter = NoWaiter
    /\ script = NoScript /\ resolution = NoResolution /\ hub = NoHub /\ sse = NoSse
    /\ exchange = NoExchange /\ ListenerInit
SpecShutdown == InitShutdown /\ [][ListenerNext]_vars

\* ---- properties of the shutdown (under SpecShutdown) --------------------------

\* C35: when the shutdown handler has completed, the listener task has ended
\* with its subscription closed and its connection released, and the handler
\* raised nothing.
C35_ShutdownClosesListener ==
    /\ listener.shutdown # "raised"
    /\ (listener.shutdown = "done" /\ listener.task # "none") =>
          /\ listener.pc = "ended"
          /\ ~listener.pubsub
          /\ ~listener.redis

(***************************************************************************)
(*                    Part IX: the legacy SSE endpoint                     *)
(*                                                                         *)
(* Streams opened on /mcp-sse/{client_id} with one and the same client id. *)
(* sse.registered is the stream whose queue sse_connections holds under    *)
(* that id, 0 when the id has no entry.                                    *)
(***************************************************************************)
MaxSseStreams == 3     \* streams a client opens with the same id

SseStreams == 1..MaxSseStreams

RECURSIVE SumQueues(_, _)
SumQueues(queues, n) == IF n = 0 THEN 0 ELSE queues[n] + SumQueues(queues, n - 1)

\* event_generator starts: queue = asyncio.Queue();
\* self.sse_connections[client_id] = queue, whatever was registered
SseConnect(c) ==
    /\ sse.streams[c] = "none"
    /\ sse' = [sse EXCEPT !.streams[c] = "open", !.registered = c, !.latest = c]
    /\ SseStays

\* the finally clause of event_generator: the entry of the client id is
\* deleted if there is one, whichever stream's queue it holds
SseDisconnect(c) ==
    /\ sse.streams[c] = "open"
    /\ sse' = [sse EXCEPT !.streams[c] = "closed", !.registered = 0]
    /\ SseStays

\* send_to_client(client_id, ...): put into the registered queue, or a warning
SendToClient ==
    /\ sse.dropped + SumQueues(sse.queues, MaxSseStreams) < MaxEvents
    /\ sse' = IF sse.registered = 0
              THEN [sse EXCEPT !.dropped = @ + 1]
              ELSE [sse EXCEPT !.queues[sse.registered] = @ + 1]
    /\ SseStays

SseInit ==
    sse = [registered |-> 0, streams |-> [c \in SseStreams |-> "none"], latest |-> 0,
           queues |-> [c \in SseStreams |-> 0], dropped |-> 0]

SseNext ==
    \/ \E c \in SseStreams : SseConnect(c)
    \/ \E c \in SseStreams : SseDisconnect(c)
    \/ SendToClient
InitSse ==
    ProtoInit /\ JobIdle /\ NotifyIdle /\ created = NoCreate /\ waiter = NoWaiter
    /\ script = NoScript /\ resolution = NoResolution /\ hub = NoHub
    /\ listener = NoListener /\ exchange = NoExchange /\ SseInit
SpecSse == InitSse /\ [][SseNext]_vars

\* ---- properties of the legacy SSE endpoint (under SpecSse) --------------------

\* C38: while the stream a client opened last with its id is open, the queue
\* registered under the id is that stream's queue, whatever other streams
\* with the same id connected or closed before.
C38_OpenStreamOwnsQueue ==
    \A c \in SseStreams :
        (sse.streams[c] = "open" /\ sse.latest = c) => sse.registered = c

(***************************************************************************)
(*              Part X: the ids of requests and responses                  *)
(*                                                                         *)
(* JsonRpcRequest.id is optional; every handler of Part I builds its       *)
(* response with create_error_response(request.id, ...) or                 *)
(* create_success_response(request.id, ...).  The transports add responses *)
(* of their own.                                                           *)
(***************************************************************************)
NullId == 0     \* JsonRpcRequest.id of a request without an id: None
MaxIds == 1     \* distinct ids the clients use

RequestIds == {NullId} \cup 1..MaxIds

\* JsonRpcResponse(id=request_id, ...) around the response r of Part I
JsonRpcResponse(request_id, r) == [id |-> request_id, kind |-> r.kind, code |-> r.code]

\* A handler that gives the request's id to its results only.
process_message_response_anonymous_errors(req, request_id, st) ==
    LET r == process_message(req, st).resp
    IN  JsonRpcResponse(IF r.kind = "error" THEN NullId ELSE request_id, r)

\* McpProtocolHandler.process_message: the handlers' response, None included
process_message_response(req, request_id, st) ==
    JsonRpcResponse(request_id, process_message(req, st).resp)

\* McpTransport.handle_json_rpc_post: the response of _process_mcp_message,
\* or {"jsonrpc": "2.0", "id": None, "result": None} when there is none
handle_json_rpc_post_response(req, request_id, st, env) ==
    LET h == handle_json_rpc_post(req, st, env)
    IN  IF h.resp.kind = "null_result"
        THEN JsonRpcResponse(NullId, h.resp)
        ELSE JsonRpcResponse(request_id, h.resp)

\* StreamableHttpTransport.handle_request answering in JSON: a header the
\* transport does not support is answered with "id": None before the body is
\* read; _handle_json_response answers with request.id, also when it caught
\* an exception
handle_request_response(req, request_id, header, st, env) ==
    LET protocol_version == IF header = "-" THEN "2025-03-26" ELSE header
        h == handle_request(req, header, FALSE, st, env)
    IN  IF protocol_version \notin HeaderVersions
        THEN JsonRpcResponse(NullId, h.resp)
        ELSE JsonRpcResponse(request_id, h.resp)

ExchangeStays ==
    UNCHANGED <<jobVars, notifyVars, created, waiter, script, resolution,
                hub, listener, sse>>

\* The state after a transport answered req, sent with request_id, by response.
Exchange(req, request_id, env, path, header, h, response) ==
    /\ h.effect.enqueued => queue_len < MaxJobs
    /\ initialized' = h.st.initialized
    /\ client_info' = h.st.client_info
    /\ last' = [req |-> req, env |-> env, streamed |-> FALSE, header |-> header,
                body |-> "json_rpc", path |-> path, wants |-> FALSE,
                init_before |-> initialized]
    /\ resp' = h.resp
    /\ effect' = h.effect
    /\ queue_len' = IF h.effect.enqueued THEN queue_len + 1 ELSE queue_len
    /\ exchange' = [path |-> path,
                    parsed |-> (path # "unified" \/ header = "-" \/ header \in HeaderVersions),
                    method |-> req.method, request_id |-> request_id,
                    id |-> response.id, kind |-> response.kind, code |-> response.code]
    /\ UNCHANGED <<active_streams, job_streams>>
    /\ ExchangeStays

\* A message with an id handed to McpProtocolHandler.process_message.
ProcessMessageWithId ==
    \E req \in Requests, request_id \in RequestIds :
        Exchange(req, request_id, CalmEnv, "handler", "-", process_message(req, Session),
                 process_message_response(req, request_id, Session))

\* POST /mcp-rpc with a request that has an id or none.
LegacyPostWithId ==
    \E req \in Requests, request_id \in RequestIds :
      \E env \in EnvsFor(req) :
        Exchange(req, request_id, env, "legacy", "-",
                 handle_json_rpc_post(req, Session, env),
                 handle_json_rpc_post_response(req, request_id, Session, env))

\* A request to the unified endpoint that is answered in JSON.
UnifiedRequestWithId ==
    \E req \in Requests, request_id \in RequestIds, header \in Headers :
      \E env \in EnvsFor(req) :
        Exchange(req, request_id, env, "unified", header,
                 handle_request(req, header, FALSE, Session, env),
                 handle_request_response(req, request_id, header, Session, env))

ExchangeInit == exchange = NoExchange

ExchangeNext == ProcessMessageWithId \/ LegacyPostWithId \/ UnifiedRequestWithId
InitIds ==
    ProtoInit /\ JobIdle /\ NotifyIdle /\ created = NoCreate /\ waiter = NoWaiter
    /\ script = NoScript /\ resolution = NoResolution /\ hub = NoHub
    /\ listener = NoListener /\ sse = NoSse /\ ExchangeInit
SpecIds == InitIds /\ [][ExchangeNext]_vars

\* ---- properties of the ids (under SpecIds) -------------------------------------

\* C39: a response given to a request that a transport parsed as an envelope
\* carries the id of that request, be it a result or an error.
C39_ResponseCarriesRequestId ==
    (exchange.parsed /\ exchange.kind # "none") => exchange.id = exchange.request_id

\* a request with an id is turned away because the session is not initialized,
\* and the error carries the id
C39_NotInitializedErrorCarriesId ==
    /\ exchange.parsed
    /\ exchange.kind = "error"
    /\ exchange.code = INVALID_REQUEST
    /\ exchange.request_id # NullId
    /\ exchange.id = exchange.request_id

\* ---- properties of the pipelines (under SpecJobs) --------------------------
Terminal == job_status \in {"finished", "failed"}
Scrubbed == DOMAIN stored_meta \cap sensitive_keys = {}
Errors == SelectSeq(published, LAMBDA m : m.type = "error")
Completions == SelectSeq(published, LAMBDA m : m.type = "completion")
SubmittedResult == [NoResult EXCEPT !.type = "submitted",
                                    !.operation_name = locals.operation_name]
\* The last status query was answered after the job ended as finished.
QueriedAfterFinish == query.known /\ query.queue_status = "finished"

\* C2: once a job run by gen_video or gen_audio is terminal (finished, with
\* any kind of result, or failed), its persisted metadata holds none of the
\* credential keys.
C2_TerminalMetaHasNoCredentials == Terminal => Scrubbed

\* An audio job failed on an exception after it had saved progress.
C2_FailedAudioJobScrubbed ==
    /\ kind = "audio"
    /\ job_status = "failed"
    /\ "progress" \in DOMAIN stored_meta
    /\ Scrubbed

\* C3: an exception that reaches the pipeline's except clause is followed, in
\* this order, by the metadata rewritten without credential keys, by exactly
\* one error notification carrying the exception's message, and by the
\* re-raise that leaves the job failed without a result.
C3_ExceptClauseOrder ==
    /\ exc # "-" => pc \in {"except", "e_notify", "e_raise", "done"}
    /\ pc = "except" => Len(Errors) = 0 /\ job_status = "started"
    /\ pc = "e_notify" => Scrubbed /\ Len(Errors) = 0 /\ job_status = "started"
    /\ pc = "e_raise" =>
          /\ Scrubbed
          /\ Errors = <<notify_error(exc)>>
          /\ published[Len(published)] = notify_error(exc)
          /\ job_status = "started"
    /\ (exc # "-" /\ pc = "done") =>
          /\ job_status = "failed"
          /\ result = NoResult
          /\ Scrubbed
          /\ Errors = <<notify_error(exc)>>
    /\ job_status = "failed" => exc # "-"

\* A video job whose submission raised ended failed, its one error
\* notification the last thing published.
C3_FailedAfterSubmitRaised ==
    /\ kind = "video"
    /\ exc = "predictLongRunning failed"
    /\ job_status = "failed"
    /\ result = NoResult
    /\ published[Len(published)] = notify_error(exc)

\* C4: when the immediate status check finds the operation done with an
\* error, gen_video raises: the job ends failed with an error notification
\* and is not stored with a {status: submitted, operation_name} result.
C4_ImmediateFailureFailsJob ==
    (vendor = "done_error" /\ pc = "done")
    => /\ job_status = "failed"
       /\ result.type # "submitted"
       /\ Len(Errors) = 1

\* C5: when the immediate status check finds the operation not done, the job
\* ends with the result {status: submitted, operation_name}, its metadata
\* holds operation_name and the marker status 'running', and a status query
\* answered afterwards, by GET /mcp/{job_id} or by the WebSocket replay,
\* reports 'started' although the queue's status is finished.
C5_SubmittedJobShownStarted ==
    (vendor = "not_done" /\ pc = "done")
    => /\ job_status = "finished"
       /\ result = SubmittedResult
       /\ result.operation_name = "operations/op1"
       /\ Get(stored_meta, "operation_name", "-") = result.operation_name
       /\ Get(stored_meta, "status", "-") = "running"
       /\ QueriedAfterFinish =>
             /\ query.status = "started"
             /\ query.operation_name = result.operation_name

\* The WebSocket replay showed a submitted job as started.
C5_ReplayShowsStarted ==
    /\ vendor = "not_done"
    /\ pc = "done"
    /\ QueriedAfterFinish
    /\ query.via = "ws"
    /\ query.status = "started"

C18_SoftFailuresDoNotFailAudio ==
    (kind = "audio" /\ pc = "done" /\ exc = "-") =>
        /\ job_status = "finished"
        /\ Errors = <<>>
        /\ result.type = "audio"
        /\ result.url # "-"
        /\ "thumbnail" \in locals.failed_soft => result.thumbnail_url = "-"
        /\ "convert" \in locals.failed_soft =>
               result.download_audio_url = result.display_audio_url

\* C18 (witness): an audio job finished although the voice lookup, the
\* transcoding and the thumbnail generation all failed.
C18_AllThreeFailed ==
    /\ kind = "audio"
    /\ pc = "done"
    /\ job_status = "finished"
    /\ locals.failed_soft = {"voice", "convert", "thumbnail"}
    /\ result.url = Mp3Url

\* C20: for a job id the queue does not know, the HTTP status query and the
\* replay on a WebSocket connect answer status not_found without a download
\* URL, and the long-poll returns the same answer on its first pass, before
\* any sleep.
C20_UnknownJobNotFound ==
    /\ (query.via \in {"http", "ws"} /\ ~query.known) =>
           query.status = "not_found" /\ query.url = "-"
    /\ (waiter.state = "polling" /\ ~waiter.known) => waiter.sleeps = 0
    /\ (waiter.state = "returned" /\ ~waiter.known) =>
           /\ waiter.sleeps = 0
           /\ waiter.answer.status = "not_found"
           /\ waiter.answer.url = "-"

\* C20 (witness): the long-poll has returned for an unknown id and the last
\* status query, a WebSocket replay, was for an unknown id as well, while the
\* worker was running another job.
C20_UnknownEverywhere ==
    /\ waiter.state = "returned"
    /\ ~waiter.known
    /\ waiter.answer.via = "http"
    /\ query.via = "ws"
    /\ ~query.known
    /\ job_status = "started"

\* C21: a status query (HTTP or WebSocket replay) answered for a job the
\* queue records as failed shows status failed, progress 0 and the step
\* "Job failed", whatever the metadata holds; every error notification
\* published carries the same three values.
C21_FailedJobShownFailed ==
    /\ (query.known /\ query.queue_status = "failed") =>
           /\ query.status = "failed"
           /\ query.progress = 0
           /\ query.current_step = "Job failed"
    /\ \A i \in 1..Len(published) :
           published[i].type = "error" =>
               /\ published[i].status = "failed"
               /\ published[i].progress = 0
               /\ published[i].current_step = "Job failed"

\* C21 (witness): the replay on a WebSocket connect was answered for a failed
\* job whose metadata holds a later progress and step, after the error
\* notification was published.
C21_ReplayOfFailedJob ==
    /\ query.via = "ws"
    /\ query.known
    /\ query.queue_status = "failed"
    /\ Get(stored_meta, "progress", 0) > 0
    /\ Get(stored_meta, "current_step", "-") # "Job failed"
    /\ Errors # <<>>

\* The status check(job_id) shows now for the id the long-poll was called with.
StatusNow ==
    IF ~waiter.known THEN "not_found"
    ELSE ShownStatus(Get(stored_meta, "status", "-"), job_status)

\* C22: the long-poll never sleeps more often than fits under the ceiling;
\* a pass of its loop that sees finished, failed or not_found, or that comes
\* when the ceiling is reached, returns the status of that moment, and any
\* other pass sleeps once more; a call that has started returns.
C22_LongPollReturns ==
    /\ [](waiter.sleeps <= MaxSleeps)
    /\ [][waiter.state = "polling" =>
            IF WaitReturns(StatusNow) \/ waiter.sleeps >= MaxSleeps
            THEN waiter'.state = "returned" /\ waiter'.answer.status = StatusNow
            ELSE waiter'.state = "polling" /\ waiter'.sleeps = waiter.sleeps + 1]_waiter
    /\ (waiter.state = "polling") ~> (waiter.state = "returned")

\* C22 (witness): a long-poll for a known job returned at the ceiling with a
\* status that is neither finished nor failed.
C22_ReturnedAtCeiling ==
    /\ waiter.state = "returned"
    /\ waiter.known
    /\ waiter.sleeps = MaxSleeps
    /\ waiter.answer.status = "started"

\* The progress notification published by this step, if it publishes one.
PublishesProgress ==
    /\ Len(published') = Len(published) + 1
    /\ published'[Len(published')].type = "progress"
Notified == published'[Len(published')]

\* The persisted metadata holds what the notification carries.
MetadataHolds(m, n) ==
    /\ Get(m, "progress", -1) = n.progress
    /\ Get(m, "current_step", "-") = n.current_step
    /\ Get(m, "step_number", -1) = n.step_number
    /\ Get(m, "total_steps", -1) = n.total_steps

\* C29: when gen_video or gen_audio publishes a progress notification, the
\* job's persisted metadata holds the progress, current_step, step_number and
\* total_steps that the notification carries.
C29_NotificationMatchesMetadata ==
    [][PublishesProgress => MetadataHolds(stored_meta', Notified)]_vars

\* The notifications of the pipeline's steps: the progress notifications and
\* the completion.
StepNotifications ==
    SelectSeq(published, LAMBDA m : m.type \in {"progress", "completion"})

\* The worker publishes a step's notification in this step.
PublishesStep ==
    /\ Len(published') = Len(published) + 1
    /\ published'[Len(published')].type \in {"progress", "completion"}

\* C30: within one job the metadata writes and the notifications follow the
\* pipeline's step order: while the job runs, step_number and progress do not
\* decrease from one write to the next nor from one notification to the next,
\* and a step's metadata is persisted before its notification is published.
C30_StepOrder ==
    /\ [][job_status = "started" /\ job_status' = "started" =>
            /\ Get(stored_meta', "progress", 0) >= Get(stored_meta, "progress", 0)
            /\ Get(stored_meta', "step_number", 0) >= Get(stored_meta, "step_number", 0)]_vars
    /\ [](\A i, j \in DOMAIN StepNotifications :
            i <= j => /\ StepNotifications[i].progress <= StepNotifications[j].progress
                      /\ StepNotifications[i].step_number
                             <= StepNotifications[j].step_number)
    /\ [][PublishesStep =>
            /\ Get(stored_meta, "progress", -1) = Notified.progress
            /\ stored_meta' = stored_meta]_vars

\* C31: the completion notification that gen_audio publishes carries status
\* 'finished' and the display, download and thumbnail URLs of the result that
\* gen_audio stores for the job.
C31_CompletionCarriesResult ==
    (kind = "audio" /\ pc = "done" /\ exc = "-") =>
        /\ Len(Completions) = 1
        /\ Completions[1].status = "finished"
        /\ Completions[1].display_audio_url = result.display_audio_url
        /\ Completions[1].download_audio_url = result.download_audio_url
        /\ Completions[1].thumbnail_url = result.thumbnail_url

\* What the two answers are compared on.
Shown(q) ==
    <<q.status, q.progress, q.current_step, q.step_number, q.total_steps,
      q.operation_name, q.url>>

\* C32: for every stored job state the replay a WebSocket gets on connect
\* reports the status, progress, current_step, step_number, total_steps,
\* operation_name and download_url that the HTTP status query returns for that
\* state, whatever the vendor says of a submitted operation.
C32_ReplayMatchesQuery ==
    \A poll \in PollOutcomes :
        Shown(send_current_status(TRUE)) = Shown(check(TRUE, poll))

\* C34 (under SpecFaults): a notify operation that fails does not change the
\* job's outcome: a job in which nothing raised but the publication of a
\* progress or completion notification ends finished, with its result.
C34_NotifyFailureKeepsOutcome ==
    (pc = "done" /\ exc = "redis publish failed") =>
        job_status = "finished" /\ result # NoResult

\* C36: a step in which a read path answers (the status query, the replay,
\* the tool, resources/read, the operation-status endpoint, a pass of the
\* long-poll) leaves the job's queue status, stored metadata and result as
\* they were, and once a job is left with a submitted result no step changes
\* it, whatever the vendor reports.
C36_ReadsLeaveJob ==
    [][/\ (query' # query \/ waiter' # waiter) =>
             UNCHANGED <<job_status, stored_meta, result>>
       /\ result.type = "submitted" =>
             UNCHANGED <<job_status, stored_meta, result>>]_vars

\* the vendor has finished and the status query shows the video, and the job
\* still holds its submitted result
C36_SubmittedJobShownFinishedVideo ==
    /\ result.type = "submitted"
    /\ query.via = "http"
    /\ query.url # "-"

\* ---- properties of the delivery (under SpecSockets and SpecStreams) ----------
\* The job events (progress, completion, error) the stream has been handed:
\* those it has emitted and those waiting in its queue.
JobEvents ==
    SelectSeq(stream.emitted \o stream.queue,
              LAMBDA m : m.type \in {"job_progress", "job_complete", "job_error"})
TerminalEvents ==
    SelectSeq(stream.emitted \o stream.queue,
              LAMBDA m : m.type \in {"job_complete", "job_error"})

\* C14: while a socket is attached to the job, the first message it has
\* received is the replay of the job's status, the replay is sent once, and
\* the messages after it are, in order and without a gap, the notifications
\* the listener has handled since the socket was registered - so every
\* notification published after the registration is either delivered or
\* still on its way.
C14_ReplayThenEveryNotification ==
    ws.state = "open" =>
        /\ Len(ws.inbox) >= 1
        /\ ws.inbox[1].type = "replay"
        /\ \A i \in 2..Len(ws.inbox) : ws.inbox[i].type # "replay"
        /\ \E k \in 0..ws.since : Tail(ws.inbox) = SubSeq(published, k + 1, listener_pos)

\* C14 (witness): a socket attached before the job ended has received the
\* replay and then every notification of the job, the last one an error.
C14_SocketSawJobFail ==
    /\ ws.state = "open"
    /\ job_status = "failed"
    /\ listener_pos = Len(published)
    /\ ws.since < Len(published)
    /\ Len(ws.inbox) = 1 + Len(published) - ws.since
    /\ ws.inbox[Len(ws.inbox)].type = "error"

\* C15: when a stream is tied to the job and the listener has handled every
\* notification the worker published, the stream has been handed one job
\* event for each notification published since it was tied.
C15_BridgeFeedsStream ==
    (stream.state = "streaming" /\ stream.has_job /\ listener_pos = Len(published)) =>
        Len(JobEvents) >= Len(published) - stream.since

\* C16: the first event of a stream is the tool's response; an event of type
\* job_complete or job_error is the last event and the stream is closed
\* after it; a closed stream has no entry in active_streams or job_streams.
C16_StreamLifeCycle ==
    /\ stream.emitted # <<>> => stream.emitted[1].type = "initial"
    /\ \A i \in 1..Len(stream.emitted) :
         stream.emitted[i].type \in {"job_complete", "job_error"} =>
             i = Len(stream.emitted) /\ stream.state = "closed"
    /\ stream.state = "closed" =>
         /\ TheClient \notin active_streams
         /\ <<TheJob, TheClient>> \notin job_streams

\* C16 (witness): a stream that emitted the response and a terminal event,
\* and closed with a later event still in its queue.
C16_ClosedAfterTerminalEvent ==
    /\ stream.state = "closed"
    /\ Len(stream.emitted) = 2
    /\ stream.emitted[1].type = "initial"
    /\ stream.emitted[2].type \in {"job_complete", "job_error"}
    /\ stream.queue # <<>>

\* C17: once the job of a streamed call is finished or failed and the
\* listener has handled everything the worker published, the stream is closed
\* or a terminal event has been handed to it.
C17_TerminalJobEndsStream ==
    (stream.has_job /\ stream.state = "streaming" /\ Terminal
        /\ listener_pos = Len(published)) =>
        TerminalEvents # <<>>

\* ---- properties of job creation (under SpecRest) -----------------------------
\* What the contract calls invalid parameters.
InvalidParameters(parameters) ==
    /\ parameters.present
    /\ \/ parameters.durationSeconds \notin 1..60
       \/ parameters.sampleCount \notin 1..4
       \/ parameters.aspectRatio \notin valid_ratios
       \/ parameters.model \notin SUPPORTED_VIDEO_MODELS

\* C19: a create-job call in video mode with invalid parameters is answered
\* with an error (HTTP 400 on the REST endpoint, a JSON-RPC error from the
\* tool) and enqueues nothing.
C19_InvalidParametersRejected ==
    (created.via # "-" /\ created.mode = "video" /\ InvalidParameters(created.parameters)) =>
        /\ created.outcome \in {"http_error", "rpc_error"}
        /\ created.outcome = "http_error" => created.code = 400
        /\ ~created.enqueued

====
